---- MODULE Spec2Model ----
(***************************************************************************)
(* YoukaiDNS: the DNS message codec (dns/message.go), the query grammar    *)
(* decoder and the file reassembly engine (server/server.go), and the      *)
(* sender's retry loop (script.sh).                                        *)
(*                                                                         *)
(* A label is a sequence of one-character strings, a name the sequence of  *)
(* labels strings.Split(name, ".") yields, a byte an integer in 0..255.    *)
(***************************************************************************)
EXTENDS Integers, Sequences, FiniteSets, Bags, TLC

(***************************************************************************)
(* Bounds of the model.                                                    *)
(***************************************************************************)
MaxEvents == 3
MaxLive == 2
MaxPart == 2
MaxTotal == 2
MaxRetry == 1
MaxConc == 3
MaxQuestions == 2
MaxChain == 6
MaxWire == 4

(***************************************************************************)
(* Program constants.                                                      *)
(***************************************************************************)
TypeA == 1
TypeTXT == 16
ClassIN == 1
RcodeNoError == 0
RcodeNXDomain == 3
FlagResponse == 33792
MaxLabelLen == 63
HeaderLen == 12
DocMaxMissing == 8

(***************************************************************************)
(* Characters, integers and hex.                                           *)
(***************************************************************************)
Digits == <<"0", "1", "2", "3", "4", "5", "6", "7", "8", "9">>
Lowercase == <<"a", "b", "c", "d", "e", "f", "g", "h", "i", "j", "k", "l", "m",
               "n", "o", "p", "q", "r", "s", "t", "u", "v", "w", "x", "y", "z">>
Uppercase == <<"A", "B", "C", "D", "E", "F", "G", "H", "I", "J", "K", "L", "M",
               "N", "O", "P", "Q", "R", "S", "T", "U", "V", "W", "X", "Y", "Z">>
HexLower == SubSeq(Lowercase, 1, 6)
HexUpper == SubSeq(Uppercase, 1, 6)

IndexIn(c, s) == IF \E i \in 1..Len(s) : s[i] = c
                 THEN CHOOSE i \in 1..Len(s) : s[i] = c /\ \A j \in 1..(i-1) : s[j] # c
                 ELSE 0

IsDigit(c) == IndexIn(c, Digits) # 0
DigitVal(c) == IndexIn(c, Digits) - 1

RECURSIVE DecVal(_)
DecVal(s) == IF s = <<>> THEN 0
             ELSE DecVal(SubSeq(s, 1, Len(s) - 1)) * 10 + DigitVal(s[Len(s)])

\* strconv.Atoi: optional sign, then one or more decimal digits.
Atoi(s) ==
  LET signed == s # <<>> /\ s[1] \in {"+", "-"}
      body == IF signed THEN Tail(s) ELSE s
  IN IF body = <<>> \/ \E i \in 1..Len(body) : ~IsDigit(body[i])
     THEN [err |-> TRUE, val |-> 0]
     ELSE [err |-> FALSE,
           val |-> IF signed /\ s[1] = "-" THEN 0 - DecVal(body) ELSE DecVal(body)]

\* fmt.Sprintf("%d", n) for n >= 0, as the ASCII bytes of the decimal digits.
RECURSIVE FormatInt(_)
FormatInt(n) == IF n < 10 THEN <<48 + n>>
                ELSE Append(FormatInt(n \div 10), 48 + (n % 10))

IsHex(c) == IsDigit(c) \/ IndexIn(c, HexLower) # 0 \/ IndexIn(c, HexUpper) # 0
HexVal(c) == IF IsDigit(c) THEN DigitVal(c)
             ELSE IF IndexIn(c, HexLower) # 0 THEN 9 + IndexIn(c, HexLower)
             ELSE 9 + IndexIn(c, HexUpper)

RECURSIVE HexBytes(_)
HexBytes(s) == IF Len(s) < 2 THEN <<>>
               ELSE <<HexVal(s[1]) * 16 + HexVal(s[2])>> \o HexBytes(SubSeq(s, 3, Len(s)))

\* hex.DecodeString: an odd length or a character outside [0-9a-fA-F] is an error.
HexDecodeStringAny(s) == [err |-> FALSE, bytes |-> HexBytes(s)]
HexDecodeString(s) ==
  IF Len(s) % 2 # 0 \/ \E i \in 1..Len(s) : ~IsHex(s[i])
  THEN [err |-> TRUE, bytes |-> <<>>]
  ELSE [err |-> FALSE, bytes |-> HexBytes(s)]

\* strings.ToLower on the characters of the model's alphabet.
LowerChar(c) == IF IndexIn(c, Uppercase) # 0 THEN Lowercase[IndexIn(c, Uppercase)] ELSE c
LowerLabel(l) == [i \in 1..Len(l) |-> LowerChar(l[i])]
ToLower(name) == [i \in 1..Len(name) |-> LowerLabel(name[i])]

\* strings.Join(labels, "")
RECURSIVE JoinLabels(_)
JoinLabels(ls) == IF ls = <<>> THEN <<>> ELSE Head(ls) \o JoinLabels(Tail(ls))

\* 0-based index of the first label equal to l, -1 when there is none.
FirstIndex(parts, l) == IndexIn(l, parts) - 1

\* parts[i] with Go's 0-based index.
At(parts, i) == parts[i + 1]

(***************************************************************************)
(* Query grammar decoder (server.go).  domain is s.domain as labels, <<>>  *)
(* when no domain suffix is configured.                                    *)
(***************************************************************************)
StartLabel == <<"s", "t", "a", "r", "t">>
MissingLabel == <<"m", "i", "s", "s", "i", "n", "g">>
ScriptLabel == <<"s", "c", "r", "i", "p", "t">>
LinuxLabel == <<"l", "i", "n", "u", "x">>
WindowsLabel == <<"w", "i", "n", "d", "o", "w", "s">>

\* strings.Split(name, "."): the empty name splits into one empty label.
Split(name) == IF name = <<>> THEN << <<>> >> ELSE name

\* strings.HasSuffix(queryDomainLower, "."+domainLower)
HasDomainSuffixAny(q, d) == Len(q) > Len(d)
HasDomainSuffix(q, d) ==
  Len(q) > Len(d) /\ SubSeq(q, Len(q) - Len(d) + 1, Len(q)) = d

\* queryDomainLower[:len(queryDomainLower)-len("."+domainLower)], split on "."
PrefixParts(q, d) == SubSeq(q, 1, Len(q) - Len(d))

\* The labels handleMissingQuery searches, or "nil" when the suffix check fails.
MissingHash(queryDomain, queryType, domain) ==
  IF queryType # TypeTXT THEN [match |-> FALSE, hash8 |-> <<>>]
  ELSE IF domain # <<>> /\ ~HasDomainSuffix(ToLower(queryDomain), ToLower(domain))
  THEN [match |-> FALSE, hash8 |-> <<>>]
  ELSE
    LET parts == IF domain # <<>>
                 THEN PrefixParts(ToLower(queryDomain), ToLower(domain))
                 ELSE Split(queryDomain)
        missingIdx == FirstIndex(parts, MissingLabel)
    IN IF missingIdx = -1 THEN [match |-> FALSE, hash8 |-> <<>>]
       ELSE IF missingIdx + 1 >= Len(parts) THEN [match |-> FALSE, hash8 |-> <<>>]
       ELSE IF Len(At(parts, missingIdx + 1)) # 8 THEN [match |-> FALSE, hash8 |-> <<>>]
       ELSE [match |-> TRUE, hash8 |-> At(parts, missingIdx + 1)]

\* The name checks of handleScriptQuery: scriptName and chunkNum (-1 when absent).
ScriptName(queryDomain, queryType, domain) ==
  IF queryType # TypeTXT THEN [match |-> FALSE, scriptName |-> <<>>, chunkNum |-> -1]
  ELSE IF domain # <<>> /\ ~HasDomainSuffix(ToLower(queryDomain), ToLower(domain))
  THEN [match |-> FALSE, scriptName |-> <<>>, chunkNum |-> -1]
  ELSE
    LET parts == IF domain # <<>>
                 THEN PrefixParts(ToLower(queryDomain), ToLower(domain))
                 ELSE Split(queryDomain)
    IN IF Len(parts) < 2 THEN [match |-> FALSE, scriptName |-> <<>>, chunkNum |-> -1]
       ELSE IF parts[Len(parts)] # ScriptLabel
       THEN [match |-> FALSE, scriptName |-> <<>>, chunkNum |-> -1]
       ELSE IF parts[Len(parts) - 1] \notin {WindowsLabel, LinuxLabel}
       THEN [match |-> FALSE, scriptName |-> <<>>, chunkNum |-> -1]
       ELSE [match |-> TRUE, scriptName |-> parts[Len(parts) - 1],
             chunkNum |-> IF Len(parts) >= 3 /\ ~Atoi(parts[1]).err
                          THEN Atoi(parts[1]).val ELSE -1]

Rejected == [ok |-> FALSE, kind |-> "none", hash8 |-> <<>>, filename |-> <<>>,
             totalParts |-> 0, chunkSize |-> 0, totalBytes |-> 0,
             partNum |-> 0, dataBytes |-> <<>>]

\* The parsing half of handleStartRecord: the fields of an accepted start record.
ParseStartRecord(parts) ==
  LET startIdx == FirstIndex(parts, StartLabel)
  IN IF startIdx = -1 \/ startIdx < 3 \/ startIdx >= Len(parts) - 1 THEN Rejected
     ELSE
       LET totalBytes == Atoi(At(parts, startIdx - 1))
           chunkSize == Atoi(At(parts, startIdx - 2))
           totalParts == Atoi(At(parts, startIdx - 3))
           filename == HexDecodeString(JoinLabels(SubSeq(parts, 1, startIdx - 3)))
           hash8 == At(parts, startIdx + 1)
       IN IF Len(hash8) # 8 THEN Rejected
          ELSE IF totalParts.err \/ totalParts.val <= 0 THEN Rejected
          ELSE IF chunkSize.err \/ chunkSize.val <= 0 THEN Rejected
          ELSE IF totalBytes.err \/ totalBytes.val < 0 THEN Rejected
          ELSE IF filename.err THEN Rejected
          ELSE [ok |-> TRUE, kind |-> "start", hash8 |-> hash8,
                filename |-> filename.bytes, totalParts |-> totalParts.val,
                chunkSize |-> chunkSize.val, totalBytes |-> totalBytes.val,
                partNum |-> 0, dataBytes |-> <<>>]

\* The parsing half of handleDataRecord: the fields of an accepted data record.
ParseDataRecord(parts) ==
  IF Len(parts) < 3 THEN Rejected
  ELSE
    LET hash8 == parts[Len(parts)]
        partNum == Atoi(parts[Len(parts) - 1])
        data == HexDecodeString(JoinLabels(SubSeq(parts, 1, Len(parts) - 2)))
    IN IF Len(hash8) # 8 THEN Rejected
       ELSE IF partNum.err \/ partNum.val < 1 THEN Rejected
       ELSE IF data.err THEN Rejected
       ELSE [ok |-> TRUE, kind |-> "data", hash8 |-> hash8, filename |-> <<>>,
             totalParts |-> 0, chunkSize |-> 0, totalBytes |-> 0,
             partNum |-> partNum.val, dataBytes |-> data.bytes]

\* handleDynamicRecord up to the state change: which record the name is, if any.
DynamicRecord(queryDomain, domain) ==
  IF domain # <<>>
  THEN LET q == ToLower(queryDomain)
           d == ToLower(domain)
       IN IF ~HasDomainSuffix(q, d) THEN Rejected
          ELSE LET parts == PrefixParts(q, d)
               IN IF Len(parts) < 3 THEN Rejected
                  ELSE IF Len(parts) >= 6 /\ FirstIndex(parts, StartLabel) >= 3
                  THEN ParseStartRecord(parts)
                  ELSE ParseDataRecord(parts)
  ELSE LET parts == Split(queryDomain)
       IN IF Len(parts) < 4 THEN Rejected
          ELSE IF \E i \in 0..(Len(parts) - 1) :
                    At(parts, i) = StartLabel /\ i >= 3 /\ i < Len(parts) - 1
          THEN ParseStartRecord(parts)
          ELSE ParseDataRecord(parts)

(***************************************************************************)
(* State.                                                                  *)
(***************************************************************************)
VARIABLES
  domain,          \* Server.domain, as labels (<<>> = "")
  objs,            \* the FileAssembly objects ever allocated, by address
  fileAssemblies,  \* Server.fileAssemblies: hash8 -> address of its FileAssembly
  assemblyMu,      \* Server.assemblyMu is write-locked across steps
  tasks,           \* the goroutines in flight, as a bag of their local states
  files,           \* the output directory: file name -> bytes
  now,             \* time.Now(), a logical clock
  sent,            \* the responses written to the socket, as a bag
  events,          \* packets delivered so far
  scriptChunks,    \* Server.scriptChunks: script name -> base64 chunks
  stats,           \* Server.stats: the counters of the statistics collector
  crashed          \* an unrecovered panic has ended the process

engineVars == <<domain, objs, fileAssemblies, assemblyMu, tasks, files, now, sent,
                events, scriptChunks, stats, crashed>>

VARIABLES
  expect,          \* history: the parts the concurrent data records carry
  script,          \* the sender script: its position and shell variables
  codec            \* a codec run: the message, its bytes, the parse result

envVars == <<expect, script, codec>>

(***************************************************************************)
(* Resource records and responses (dns/message.go, server.go).             *)
(***************************************************************************)
\* A TXT resource record holding one length-prefixed string, as the handlers build it.
TxtRecordCached(name, text) ==
  [Name |-> name, Type |-> TypeTXT, Class |-> ClassIN, TTL |-> 300,
   Data |-> <<Len(text) % 256>> \o text, DataLen |-> (Len(text) + 1) % 65536]
TxtRecord(name, text) ==
  [Name |-> name, Type |-> TypeTXT, Class |-> ClassIN, TTL |-> 0,
   Data |-> <<Len(text) % 256>> \o text, DataLen |-> (Len(text) + 1) % 65536]

\* The "OK" acknowledgement of handleRequest for a handled dynamic record.
OkAnswers(name, qtype) ==
  IF qtype = TypeTXT THEN <<TxtRecord(name, <<79, 75>>)>> ELSE <<>>

\* BuildResponse: the header and sections of the response to query.
BuildResponse(query, answers, rcode) ==
  [Header |-> [ID |-> query.Header.ID, Flags |-> FlagResponse + rcode,
               QdCount |-> query.Header.QdCount, AnCount |-> Len(answers) % 65536,
               NsCount |-> 0, ArCount |-> 0],
   Questions |-> query.Questions,
   Answers |-> answers]

\* The response code handleRequest chooses for the merged answers.
ResponseCode(allAnswers) == IF Len(allAnswers) > 0 THEN RcodeNoError ELSE RcodeNXDomain

\* Server.records after the AddRecord calls of main.go: (domain, type) -> records.
ExampleCom == << <<"e", "x", "a", "m", "p", "l", "e">>, <<"c", "o", "m">> >>
TestExampleCom == << <<"t", "e", "s", "t">> >> \o ExampleCom
WwwExampleCom == << <<"w", "w", "w">> >> \o ExampleCom
Wildcard == << <<"*">> >>
records ==
  (<<ExampleCom, TypeA>> :> <<[Type |-> TypeA, Value |-> <<192, 168, 1, 100>>]>>) @@
  (<<TestExampleCom, TypeA>> :> <<[Type |-> TypeA, Value |-> <<192, 168, 1, 101>>]>>) @@
  (<<WwwExampleCom, TypeA>> :> <<[Type |-> TypeA, Value |-> <<192, 168, 1, 102>>]>>) @@
  (<<ExampleCom, TypeTXT>> :> <<[Type |-> TypeTXT, Value |-> << <<118, 61>> >>]>>) @@
  (<<TestExampleCom, TypeTXT>> :> <<[Type |-> TypeTXT, Value |-> << <<116>>, <<97>> >>]>>)

\* Server.lookup: the exact match first, then the wildcard entry.
lookup(name, recordType) ==
  IF <<name, recordType>> \in DOMAIN records THEN records[<<name, recordType>>]
  ELSE IF <<Wildcard, recordType>> \in DOMAIN records THEN records[<<Wildcard, recordType>>]
  ELSE <<>>

\* convertToResourceRecords: A data is the 4 address bytes, TXT data the
\* length-prefixed strings (each cut to 255 bytes); records without data are dropped.
RECURSIVE TxtData(_)
TxtData(txtStrings) ==
  IF txtStrings = <<>> THEN <<>>
  ELSE LET txt == IF Len(Head(txtStrings)) > 255 THEN SubSeq(Head(txtStrings), 1, 255)
                  ELSE Head(txtStrings)
       IN <<Len(txt)>> \o txt \o TxtData(Tail(txtStrings))

RECURSIVE convertToResourceRecords(_, _)
convertToResourceRecords(name, recs) ==
  IF recs = <<>> THEN <<>>
  ELSE LET record == Head(recs)
           data == IF record.Type = TypeA THEN record.Value
                   ELSE IF record.Type = TypeTXT THEN TxtData(record.Value)
                   ELSE <<>>
           rr == [Name |-> name, Type |-> record.Type, Class |-> ClassIN, TTL |-> 0,
                  Data |-> data, DataLen |-> Len(data) % 65536]
       IN (IF Len(data) > 0 THEN <<rr>> ELSE <<>>)
          \o convertToResourceRecords(name, Tail(recs))

(***************************************************************************)
(* sanitizeFilename and the assembly loops (server.go), on bytes.          *)
(***************************************************************************)
\* strings.ReplaceAll(s, old, new) for a one-byte old and a new of one byte
\* or none.
ReplaceByte(s, old, new) ==
  IF new = <<>> THEN SelectSeq(s, LAMBDA b : b # old)
  ELSE [i \in 1..Len(s) |-> IF s[i] = old THEN new[1] ELSE s[i]]

\* The number of '.' bytes that come right before position i.
DotsBefore(s, i) ==
  CHOOSE k \in 0..(i - 1) :
    /\ \A j \in (i - k)..(i - 1) : s[j] = 46
    /\ k = i - 1 \/ s[i - k - 1] # 46

\* strings.ReplaceAll(s, "..", "_"): non-overlapping matches, left to right.
\* In a run of dots the matches are the pairs counted from the start of the
\* run: the first dot of a pair becomes '_', the second goes, an odd last
\* dot stays.
ReplaceDotDot(s) ==
  LET marked == [i \in 1..Len(s) |->
                   IF s[i] # 46 THEN s[i]
                   ELSE IF DotsBefore(s, i) % 2 = 1 THEN -1
                   ELSE IF i < Len(s) /\ s[i + 1] = 46 THEN 95
                   ELSE 46]
  IN SelectSeq(marked, LAMBDA b : b # -1)

sanitizeFilename(filename) ==
  LET a == ReplaceByte(filename, 47, <<95>>)
      b == ReplaceByte(a, 92, <<95>>)
      c == ReplaceDotDot(b)
      d == ReplaceByte(c, 0, <<>>)
  IN IF Len(d) > 255 THEN SubSeq(d, 1, 255) ELSE d

\* The ASCII bytes of a label of the model's alphabet (digits, letters, "-", "*").
CharByte(c) == IF IsDigit(c) THEN 48 + DigitVal(c)
               ELSE IF IndexIn(c, Lowercase) # 0 THEN 96 + IndexIn(c, Lowercase)
               ELSE IF IndexIn(c, Uppercase) # 0 THEN 64 + IndexIn(c, Uppercase)
               ELSE IF c = "-" THEN 45
               ELSE 42
LabelBytes(l) == [i \in 1..Len(l) |-> CharByte(l[i])]

\* The bytes of a name written with dots between its labels.
RECURSIVE NameBytes(_)
NameBytes(name) ==
  IF name = <<>> THEN <<>>
  ELSE IF Len(name) = 1 THEN LabelBytes(name[1])
  ELSE LabelBytes(name[1]) \o <<46>> \o NameBytes(Tail(name))

\* fmt.Sprintf("unknown_%s", hash8) and fmt.Sprintf("file_%s", hash8)
UnknownName(hash8) == <<117, 110, 107, 110, 111, 119, 110, 95>> \o LabelBytes(hash8)
FileName(hash8) == <<102, 105, 108, 101, 95>> \o LabelBytes(hash8)

\* A missing-chunks loop that stops one part short (i < TotalParts).
RECURSIVE MissingChunksShort(_, _, _)
MissingChunksShort(parts, i, total) ==
  IF i >= total THEN <<>>
  ELSE (IF i \notin DOMAIN parts THEN <<i>> ELSE <<>>)
       \o MissingChunksShort(parts, i + 1, total)

\* The loop of handleMissingQuery: the part numbers i..total that Parts lacks.
RECURSIVE MissingChunks(_, _, _)
MissingChunks(parts, i, total) ==
  IF i > total THEN <<>>
  ELSE (IF i \notin DOMAIN parts THEN <<i>> ELSE <<>>) \o MissingChunks(parts, i + 1, total)

\* The loop of handleDataRecord: are all of 1..total keys of Parts.
AllParts(parts, total) == \A i \in 1..total : i \in DOMAIN parts

\* An assembly loop that puts each part in front of the data gathered so far.
RECURSIVE AssemblePartsPrepend(_, _, _, _)
AssemblePartsPrepend(parts, i, total, fileData) ==
  IF i > total THEN [ok |-> TRUE, fileData |-> fileData]
  ELSE IF i \notin DOMAIN parts THEN [ok |-> FALSE, fileData |-> <<>>]
  ELSE AssemblePartsPrepend(parts, i + 1, total, parts[i] \o fileData)

\* The loop of assembleAndSaveFile: fileData after parts i..total are appended.
RECURSIVE AssembleParts(_, _, _, _)
AssembleParts(parts, i, total, fileData) ==
  IF i > total THEN [ok |-> TRUE, fileData |-> fileData]
  ELSE IF i \notin DOMAIN parts THEN [ok |-> FALSE, fileData |-> <<>>]
  ELSE AssembleParts(parts, i + 1, total, fileData \o parts[i])

\* The TXT records handleMissingQuery builds from the missing part numbers.
RECURSIVE MissingRecords(_, _)
MissingRecords(name, missingChunks) ==
  IF missingChunks = <<>> THEN <<>>
  ELSE <<TxtRecord(name, FormatInt(Head(missingChunks)))>>
       \o MissingRecords(name, Tail(missingChunks))

(***************************************************************************)
(* handleScriptQuery (server.go).  scriptChunks maps a script name to its  *)
(* base64 chunks; a script that could not be loaded has no entry.          *)
(***************************************************************************)
\* The fixed text of the two fmt.Sprintf formats, as bytes.
LinuxOneLiner1 ==
  <<101, 99, 104, 111, 32, 36, 40, 102, 111, 114, 32, 105, 32, 105, 110, 32,
    36, 40, 115, 101, 113, 32, 49, 32>>
LinuxOneLiner2 ==
  <<41, 59, 32, 100, 111, 32, 100, 105, 103, 32, 43, 115, 104, 111, 114, 116,
    32, 36, 105, 46>>
LinuxOneLiner3 ==
  <<32, 84, 88, 84, 32, 124, 32, 103, 114, 101, 112, 32, 45, 111, 69, 32, 39,
    34, 91, 94, 34, 93, 43, 34, 39, 32, 124, 32, 116, 114, 32, 45, 100, 32,
    39, 34, 39, 59, 32, 100, 111, 110, 101, 41, 32, 124, 32, 116, 114, 32,
    45, 100, 32, 39, 32, 39, 32, 124, 32, 98, 97, 115, 101, 54, 52, 32, 45,
    100>>
WindowsOneLiner1 ==
  <<91, 83, 121, 115, 116, 101, 109, 46, 84, 101, 120, 116, 46, 69, 110, 99,
    111, 100, 105, 110, 103, 93, 58, 58, 85, 84, 70, 56, 46, 71, 101, 116,
    83, 116, 114, 105, 110, 103, 40, 91, 83, 121, 115, 116, 101, 109, 46, 67,
    111, 110, 118, 101, 114, 116, 93, 58, 58, 70, 114, 111, 109, 66, 97, 115,
    101, 54, 52, 83, 116, 114, 105, 110, 103, 40, 40, 49, 46, 46>>
WindowsOneLiner2 ==
  <<124, 37, 123, 82, 101, 115, 111, 108, 118, 101, 45, 68, 110, 115, 78, 97,
    109, 101, 32, 45, 116, 121, 32, 84, 88, 84, 32, 45, 110, 97, 32, 34, 36,
    95, 46>>
WindowsOneLiner3 ==
  <<34, 124, 63, 32, 83, 101, 99, 116, 105, 111, 110, 32, 45, 101, 113, 32,
    65, 110, 115, 119, 101, 114, 124, 37, 32, 83, 116, 114, 105, 110, 103,
    115, 125, 41, 41, 41>>

Nil == [nil |-> TRUE, rrs |-> <<>>]
Answers(rrs) == [nil |-> FALSE, rrs |-> rrs]

\* The one-liner for scriptName with n chunks under the configured domain.
OneLiner(scriptName, n, dom) ==
  LET baseDomain == LabelBytes(scriptName) \o <<46>> \o LabelBytes(ScriptLabel)
                    \o (IF dom # <<>> THEN <<46>> \o NameBytes(dom) ELSE <<>>)
  IN IF scriptName = WindowsLabel
     THEN WindowsOneLiner1 \o FormatInt(n) \o WindowsOneLiner2 \o baseDomain
          \o WindowsOneLiner3
     ELSE LinuxOneLiner1 \o FormatInt(n) \o LinuxOneLiner2 \o baseDomain
          \o LinuxOneLiner3

handleScriptQuery(chunksOf, queryDomain, queryType, dom) ==
  LET q == ScriptName(queryDomain, queryType, dom)
  IN IF ~q.match THEN Nil
     ELSE IF q.scriptName \notin DOMAIN chunksOf THEN Nil
     ELSE LET chunks == chunksOf[q.scriptName]
          IN IF Len(chunks) = 0 THEN Nil
             ELSE IF q.chunkNum >= 1
             THEN IF q.chunkNum - 1 < Len(chunks)
                  THEN Answers(<<TxtRecord(queryDomain, chunks[q.chunkNum])>>)
                  ELSE Nil
             ELSE Answers(<<TxtRecord(queryDomain, OneLiner(q.scriptName, Len(chunks), dom))>>)

(***************************************************************************)
(* The wire codec (dns/message.go).  A name is the string of its bytes,    *)
(* 46 being the dot; a message on the wire is a sequence of bytes.         *)
(***************************************************************************)
Dot == 46
maxJumps == 5

\* binary.BigEndian.PutUint16 / binary.Write of a uint16
PutUint16(v) == <<(v \div 256) % 256, v % 256>>
\* binary.Write of a uint32
PutUint32(v) == PutUint16((v \div 65536) % 65536) \o PutUint16(v % 65536)
\* binary.BigEndian.Uint16(data[offset:]), offset counted from 0
Uint16(data, offset) == data[offset + 1] * 256 + data[offset + 2]

\* bytes.Split(name, "."): the parts between the dots, empty parts included
SplitDots(name) ==
  LET dots == {i \in 1..Len(name) : name[i] = Dot}
      dotAt(j) == IF j = 0 THEN 0
                  ELSE IF j > Cardinality(dots) THEN Len(name) + 1
                  ELSE CHOOSE i \in dots : Cardinality({d \in dots : d < i}) = j - 1
  IN [j \in 1..(Cardinality(dots) + 1) |-> SubSeq(name, dotAt(j - 1) + 1, dotAt(j) - 1)]

RECURSIVE WriteLabels(_)
WriteLabels(parts) ==
  IF parts = <<>> THEN <<>>
  ELSE <<Len(Head(parts))>> \o Head(parts) \o WriteLabels(Tail(parts))

\* The same as encodeName without the closing zero byte.
encodeNameOpen(name) ==
  [err |-> FALSE, bytes |-> WriteLabels(SplitDots(name))]

encodeName(name) ==
  IF Len(name) = 0 THEN [err |-> FALSE, bytes |-> <<0>>]
  ELSE LET parts == SplitDots(name)
       IN IF \E i \in 1..Len(parts) : Len(parts[i]) > MaxLabelLen
          THEN [err |-> TRUE, bytes |-> <<>>]
          ELSE [err |-> FALSE, bytes |-> WriteLabels(parts) \o <<0>>]

HeaderBytes(h) ==
  PutUint16(h.ID) \o PutUint16(h.Flags) \o PutUint16(h.QdCount)
  \o PutUint16(h.AnCount) \o PutUint16(h.NsCount) \o PutUint16(h.ArCount)

RECURSIVE QuestionBytes(_)
QuestionBytes(qs) ==
  IF qs = <<>> THEN [err |-> FALSE, bytes |-> <<>>]
  ELSE LET q == Head(qs)
           n == encodeName(q.Name)
           rest == QuestionBytes(Tail(qs))
       IN IF n.err \/ rest.err THEN [err |-> TRUE, bytes |-> <<>>]
          ELSE [err |-> FALSE,
                bytes |-> n.bytes \o PutUint16(q.Type) \o PutUint16(q.Class) \o rest.bytes]

RECURSIVE AnswerBytes(_)
AnswerBytes(rrs) ==
  IF rrs = <<>> THEN [err |-> FALSE, bytes |-> <<>>]
  ELSE LET rr == Head(rrs)
           n == encodeName(rr.Name)
           rest == AnswerBytes(Tail(rrs))
       IN IF n.err \/ rest.err THEN [err |-> TRUE, bytes |-> <<>>]
          ELSE [err |-> FALSE,
                bytes |-> n.bytes \o PutUint16(rr.Type) \o PutUint16(rr.Class)
                          \o PutUint32(rr.TTL) \o PutUint16(rr.DataLen) \o rr.Data
                          \o rest.bytes]

ToBytes(m) ==
  LET qs == QuestionBytes(m.Questions)
      as == AnswerBytes(m.Answers)
  IN IF qs.err \/ as.err THEN [err |-> TRUE, bytes |-> <<>>]
     ELSE [err |-> FALSE, bytes |-> HeaderBytes(m.Header) \o qs.bytes \o as.bytes]

DecodeError == [err |-> TRUE, panic |-> FALSE, name |-> <<>>, offset |-> 0]
DecodePanic == [err |-> FALSE, panic |-> TRUE, name |-> <<>>, offset |-> 0]

\* The loop of decodeName; offsets count from 0 as in the code.
RECURSIVE decodeLoop(_, _, _, _, _, _)
decodeLoop(data, offset, name, jumped, originalOffset, jumpsPerformed) ==
  IF offset >= Len(data) THEN DecodeError
  ELSE
    LET length == data[offset + 1]
        next == offset + 1
    IN IF length = 0
       THEN [err |-> FALSE, panic |-> FALSE, name |-> name,
             offset |-> IF jumped THEN originalOffset ELSE next]
       ELSE IF length >= 192
       THEN IF jumpsPerformed + 1 > maxJumps THEN DecodeError
            \* binary.BigEndian.Uint16(data[offset-1:]) needs two bytes
            ELSE IF Len(data) - (next - 1) < 2 THEN DecodePanic
            ELSE decodeLoop(data, Uint16(data, next - 1) % 16384, name, TRUE,
                            IF jumped THEN originalOffset ELSE next + 1,
                            jumpsPerformed + 1)
       ELSE IF next + length > Len(data) THEN DecodeError
       ELSE decodeLoop(data, next + length,
                       (IF Len(name) > 0 THEN Append(name, Dot) ELSE name)
                         \o SubSeq(data, next + 1, next + length),
                       jumped, originalOffset, jumpsPerformed)

\* A loop that returns to the byte after the pointer it followed last.
RECURSIVE decodeLoopLast(_, _, _, _, _, _)
decodeLoopLast(data, offset, name, jumped, originalOffset, jumpsPerformed) ==
  IF offset >= Len(data) THEN DecodeError
  ELSE
    LET length == data[offset + 1]
        next == offset + 1
    IN IF length = 0
       THEN [err |-> FALSE, panic |-> FALSE, name |-> name,
             offset |-> IF jumped THEN originalOffset ELSE next]
       ELSE IF length >= 192
       THEN IF jumpsPerformed + 1 > maxJumps THEN DecodeError
            ELSE IF Len(data) - (next - 1) < 2 THEN DecodePanic
            ELSE decodeLoopLast(data, Uint16(data, next - 1) % 16384, name, TRUE,
                                next + 1, jumpsPerformed + 1)
       ELSE IF next + length > Len(data) THEN DecodeError
       ELSE decodeLoopLast(data, next + length,
                           (IF Len(name) > 0 THEN Append(name, Dot) ELSE name)
                             \o SubSeq(data, next + 1, next + length),
                           jumped, originalOffset, jumpsPerformed)

decodeNameLast(data, offset) == decodeLoopLast(data, offset, <<>>, FALSE, offset, 0)

\* A decoder that counts one jump before it has made any.
decodeNameEager(data, offset) == decodeLoop(data, offset, <<>>, FALSE, offset, 1)

decodeName(data, offset) == decodeLoop(data, offset, <<>>, FALSE, offset, 0)

ParseFailed == [err |-> TRUE, panic |-> FALSE, questions |-> <<>>]
ParsePanic == [err |-> FALSE, panic |-> TRUE, questions |-> <<>>]

\* The question loop of ParseMessage, with count questions still to read.
RECURSIVE ParseQuestions(_, _, _)
ParseQuestions(data, offset, count) ==
  IF count = 0 THEN [err |-> FALSE, panic |-> FALSE, questions |-> <<>>]
  ELSE
    LET n == decodeName(data, offset)
    IN IF n.panic THEN ParsePanic
       ELSE IF n.err THEN ParseFailed
       ELSE IF n.offset + 4 > Len(data) THEN ParseFailed
       ELSE LET q == [Name |-> n.name,
                      Type |-> Uint16(data, n.offset),
                      Class |-> Uint16(data, n.offset + 2)]
                rest == ParseQuestions(data, n.offset + 4, count - 1)
            IN IF rest.panic THEN ParsePanic
               ELSE IF rest.err THEN ParseFailed
               ELSE [err |-> FALSE, panic |-> FALSE, questions |-> <<q>> \o rest.questions]

NoMessage == [Header |-> <<>>, Questions |-> <<>>, Answers |-> <<>>]

ParseMessage(data) ==
  IF Len(data) < HeaderLen
  THEN [err |-> TRUE, panic |-> FALSE, msg |-> NoMessage]
  ELSE
    LET header == [ID |-> Uint16(data, 0), Flags |-> Uint16(data, 2),
                   QdCount |-> Uint16(data, 4), AnCount |-> Uint16(data, 6),
                   NsCount |-> Uint16(data, 8), ArCount |-> Uint16(data, 10)]
        qs == ParseQuestions(data, HeaderLen, header.QdCount)
    IN IF qs.panic THEN [err |-> FALSE, panic |-> TRUE, msg |-> NoMessage]
       ELSE IF qs.err THEN [err |-> TRUE, panic |-> FALSE, msg |-> NoMessage]
       ELSE [err |-> FALSE, panic |-> FALSE,
             msg |-> [Header |-> header, Questions |-> qs.questions, Answers |-> <<>>]]

(***************************************************************************)
(* The goroutines.  A task is the local state of one goroutine: a request  *)
(* handler (handleRequest), an assembleAndSaveFile call or a cleanup       *)
(* closure.  The tag of a response names the branch that answered and dup  *)
(* records that a data handler stored bytes the part already held: both    *)
(* are history fields.                                                     *)
(***************************************************************************)
NewTask(kind, pc, name, qtype, rec, hash8, asm) ==
  [kind |-> kind, pc |-> pc, name |-> name, qtype |-> qtype, rec |-> rec,
   hash8 |-> hash8, asm |-> asm, receivedParts |-> 0, dup |-> FALSE, id |-> 1]

Running == BagToSet(tasks)
Replace(t, u) == (tasks (-) SetToBag({t})) (+) SetToBag({u})
Remove(t) == tasks (-) SetToBag({t})
Spawn(bag, t) == bag (+) SetToBag({t})

\* A GetFileTransfers call holds the read side of assemblyMu from its RLock to
\* its deferred RUnlock.
ReadLocked == \E t \in Running : t.kind = "transfers" /\ t.pc \in {"t_scan", "t_runlock"}

RECURSIVE CountIn(_, _)
CountIn(S, bag) ==
  IF S = {} THEN 0
  ELSE LET t == CHOOSE x \in S : TRUE
       IN CopiesIn(t, bag) + CountIn(S \ {t}, bag)

\* The request handlers in flight.
LiveHandlers == CountIn({t \in Running : t.kind \in {"missing", "start", "data"}}, tasks)

\* The query message of a one-question packet.
Query(name, qtype) ==
  [Header |-> [ID |-> 1, Flags |-> 0, QdCount |-> 1, AnCount |-> 0, NsCount |-> 0,
               ArCount |-> 0],
   Questions |-> <<[Name |-> name, Type |-> qtype, Class |-> ClassIN]>>,
   Answers |-> <<>>]

\* The query a handler is answering: the packet's header ID with its question.
QueryOf(t) == [Query(t.name, t.qtype) EXCEPT !.Header.ID = t.id]

\* The end of handleRequest: the response built from the merged answers.
Response(t, allAnswers, tag) ==
  [tag |-> tag,
   msg |-> BuildResponse(QueryOf(t), allAnswers, ResponseCode(allAnswers))]

\* The message with its names as the byte strings the codec writes.
WireMessage(m) ==
  [Header |-> m.Header,
   Questions |-> [i \in DOMAIN m.Questions |->
                    [m.Questions[i] EXCEPT !.Name = NameBytes(m.Questions[i].Name)]],
   Answers |-> [i \in DOMAIN m.Answers |->
                  [m.Answers[i] EXCEPT !.Name = NameBytes(m.Answers[i].Name)]]]

\* Stats.RecordQuery and Stats.RecordResponse, on the counters.
NoStats == [TotalQueries |-> 0, SuccessfulResps |-> 0, FailedResps |-> 0]
RecordQuery(st) == [st EXCEPT !.TotalQueries = @ + 1]
RecordResponse(st, success) ==
  IF success THEN [st EXCEPT !.SuccessfulResps = @ + 1]
  ELSE [st EXCEPT !.FailedResps = @ + 1]

\* ToBytes returns an error: encodeName finds, between the dots of the name of
\* a question or an answer, a part of more than 63 bytes.
ToBytesFails(m) ==
  \/ \E i \in DOMAIN m.Questions :
       \E j \in DOMAIN m.Questions[i].Name : Len(m.Questions[i].Name[j]) > MaxLabelLen
  \/ \E i \in DOMAIN m.Answers :
       \E j \in DOMAIN m.Answers[i].Name : Len(m.Answers[i].Name[j]) > MaxLabelLen

\* response.ToBytes(), conn.WriteToUDP and stats.RecordResponse: a response
\* that cannot be encoded is logged and neither sent nor recorded.
ReplyFrom(st, t, allAnswers, tag, success) ==
  LET response == Response(t, allAnswers, tag)
  IN IF ToBytesFails(response.msg)
     THEN /\ sent' = sent
          /\ stats' = st
     ELSE /\ sent' = sent (+) SetToBag({response})
          /\ stats' = RecordResponse(st, success)

Reply(t, allAnswers, tag, success) == ReplyFrom(stats, t, allAnswers, tag, success)

\* The zone branch of handleRequest.
ZoneAnswers(t) == convertToResourceRecords(t.name, lookup(t.name, t.qtype))

\* handleMissingQuery returned nil: handleRequest goes on to handleDynamicRecord
\* and, when that rejects the name, to the zone.
FallThroughFrom(st, t, tag) ==
  IF t.rec.ok
  THEN /\ tasks' = Replace(t, [t EXCEPT !.kind = t.rec.kind,
                                       !.pc = IF t.rec.kind = "start" THEN "s_lock"
                                              ELSE "d_lock",
                                       !.hash8 = t.rec.hash8])
       /\ sent' = sent
       /\ stats' = st
  ELSE /\ tasks' = Remove(t)
       /\ ReplyFrom(st, t, ZoneAnswers(t), tag, ZoneAnswers(t) # <<>>)

FallThrough(t, tag) == FallThroughFrom(stats, t, tag)

\* The order of the handlers in the question loop of handleRequest: which
\* one takes the question, given which of them accept it.
FirstHandlerDynamic(isScript, isMissing, isDynamic) ==
  IF isDynamic THEN "dynamic"
  ELSE IF isScript THEN "script"
  ELSE IF isMissing THEN "missing"
  ELSE "zone"
FirstHandler(isScript, isMissing, isDynamic) ==
  IF isScript THEN "script"
  ELSE IF isMissing THEN "missing"
  ELSE IF isDynamic THEN "dynamic"
  ELSE "zone"

\* handleRequest on a parsed query of one question: the question is recorded
\* and its name classified.
Handle(id, name, qtype) ==
  /\ ~crashed
  /\ LiveHandlers < MaxLive
  /\ events' = events + 1
  /\ LET scriptAnswers == handleScriptQuery(scriptChunks, name, qtype, domain)
         missing == MissingHash(name, qtype, domain)
         t == [NewTask("missing", "m_lookup", name, qtype, DynamicRecord(name, domain),
                       missing.hash8, 0) EXCEPT !.id = id]
         recorded == RecordQuery(stats)
     IN \E handler \in {FirstHandler(~scriptAnswers.nil, missing.match, t.rec.ok)} :
          IF handler = "script"
          THEN /\ ReplyFrom(recorded, t, scriptAnswers.rrs, "script", TRUE)
               /\ tasks' = tasks
          ELSE IF handler = "missing"
          THEN /\ tasks' = Spawn(tasks, t)
               /\ sent' = sent
               /\ stats' = recorded
          ELSE FallThroughFrom(recorded, t, "zone")
  /\ UNCHANGED <<domain, objs, fileAssemblies, assemblyMu, files, now, scriptChunks,
                 crashed>>

\* A packet with one question arrives.
Receive(name, qtype) == Handle(1, name, qtype)

\* One of the at most MaxEvents packets of a run arrives.
Deliver(name, qtype) == events < MaxEvents /\ Receive(name, qtype)

(***************************************************************************)
(* handleMissingQuery, from the map lookup on.                             *)
(***************************************************************************)
\* s.assemblyMu.RLock(); assembly, exists := s.fileAssemblies[hash8]; RUnlock()
MissingLookup(t) ==
  /\ t.pc = "m_lookup"
  /\ ~assemblyMu
  /\ IF t.hash8 \in DOMAIN fileAssemblies
     THEN /\ tasks' = Replace(t, [t EXCEPT !.pc = "m_total",
                                          !.asm = fileAssemblies[t.hash8]])
          /\ UNCHANGED <<sent, stats>>
     ELSE FallThrough(t, "unknown")
  /\ UNCHANGED <<domain, objs, fileAssemblies, assemblyMu, files, now, events,
                 scriptChunks, crashed>>

\* if assembly.TotalParts <= 0 { return nil }, read without the assembly lock
MissingTotal(t) ==
  /\ t.pc = "m_total"
  /\ IF objs[t.asm].TotalParts <= 0
     THEN FallThrough(t, "unknownTotal")
     ELSE /\ tasks' = Replace(t, [t EXCEPT !.pc = "m_scan"])
          /\ UNCHANGED <<sent, stats>>
  /\ UNCHANGED <<domain, objs, fileAssemblies, assemblyMu, files, now, events,
                 scriptChunks, crashed>>

\* The answers of handleMissingQuery for an assembly, computed under assembly.mu:
\* one TXT record per missing part number, an empty non-nil slice when none is missing.
MissingAnswers(name, assembly) ==
  MissingRecords(name, MissingChunks(assembly.Parts, 1, assembly.TotalParts))

\* assembly.mu.Lock() ... Unlock(), the records, and the response of handleRequest
MissingScan(t) ==
  /\ t.pc = "m_scan"
  /\ ~objs[t.asm].mu
  /\ LET assembly == objs[t.asm]
         missingAnswers == MissingAnswers(t.name, assembly)
         isCompleted == assembly.CompletedAt # 0
         tag == IF missingAnswers # <<>> THEN "missing"
                ELSE IF isCompleted THEN "complete" ELSE "allReceived"
     IN /\ Reply(t, missingAnswers, tag, TRUE)
        /\ tasks' = Remove(t)
  /\ UNCHANGED <<domain, objs, fileAssemblies, assemblyMu, files, now, events,
                 scriptChunks, crashed>>

(***************************************************************************)
(* handleStartRecord, from the map lock on.                                *)
(***************************************************************************)
NewAssembly(filename, hash8, totalParts, chunkSize, totalBytes) ==
  [Filename |-> filename, Hash |-> hash8, TotalParts |-> totalParts,
   ChunkSize |-> chunkSize, TotalBytes |-> totalBytes, Parts |-> <<>>,
   CompletedAt |-> 0, mu |-> FALSE]

\* s.assemblyMu.Lock(); a new assembly is created and published, or the
\* existing one gets its Filename written (the other fields follow in StartWrite)
StartLock(t) ==
  /\ t.pc = "s_lock"
  /\ ~assemblyMu
  /\ IF t.hash8 \notin DOMAIN fileAssemblies
     THEN /\ objs' = Append(objs, NewAssembly(t.rec.filename, t.hash8, t.rec.totalParts,
                                              t.rec.chunkSize, t.rec.totalBytes))
          /\ fileAssemblies' = [h \in DOMAIN fileAssemblies \cup {t.hash8} |->
                                  IF h = t.hash8 THEN Len(objs) + 1
                                  ELSE fileAssemblies[h]]
          /\ assemblyMu' = FALSE
          /\ tasks' = Remove(t)
          /\ Reply(t, OkAnswers(t.name, t.qtype), "ok", TRUE)
     ELSE /\ objs' = [objs EXCEPT ![fileAssemblies[t.hash8]].Filename = t.rec.filename]
          /\ assemblyMu' = TRUE
          /\ tasks' = Replace(t, [t EXCEPT !.pc = "s_write",
                                          !.asm = fileAssemblies[t.hash8]])
          /\ UNCHANGED <<fileAssemblies, sent, stats>>
  /\ UNCHANGED <<domain, files, now, events, scriptChunks, crashed>>

\* An update that also empties the parts the assembly holds.
StartWriteReset(t) ==
  /\ t.pc = "s_write"
  /\ objs' = [objs EXCEPT ![t.asm].TotalParts = t.rec.totalParts,
                          ![t.asm].ChunkSize = t.rec.chunkSize,
                          ![t.asm].TotalBytes = t.rec.totalBytes,
                          ![t.asm].Parts = <<>>]
  /\ assemblyMu' = FALSE
  /\ tasks' = Remove(t)
  /\ Reply(t, OkAnswers(t.name, t.qtype), "ok", TRUE)
  /\ UNCHANGED <<domain, fileAssemblies, files, now, events, scriptChunks, crashed>>

\* assembly.TotalParts, ChunkSize, TotalBytes = ...; s.assemblyMu.Unlock(); return true
StartWrite(t) ==
  /\ t.pc = "s_write"
  /\ objs' = [objs EXCEPT ![t.asm].TotalParts = t.rec.totalParts,
                          ![t.asm].ChunkSize = t.rec.chunkSize,
                          ![t.asm].TotalBytes = t.rec.totalBytes]
  /\ assemblyMu' = FALSE
  /\ tasks' = Remove(t)
  /\ Reply(t, OkAnswers(t.name, t.qtype), "ok", TRUE)
  /\ UNCHANGED <<domain, fileAssemblies, files, now, events, scriptChunks, crashed>>

(***************************************************************************)
(* handleDataRecord, from the map lock on.                                 *)
(***************************************************************************)
\* A lookup that takes whatever assembly the map holds when its own hash8 is
\* not in it.
DataLockShared(t) ==
  /\ t.pc = "d_lock"
  /\ ~assemblyMu
  /\ IF DOMAIN fileAssemblies = {}
     THEN /\ objs' = Append(objs, NewAssembly(UnknownName(t.hash8), t.hash8, -1, 0, -1))
          /\ fileAssemblies' = [h \in {t.hash8} |-> Len(objs) + 1]
          /\ tasks' = Replace(t, [t EXCEPT !.pc = "d_store", !.asm = Len(objs) + 1])
     ELSE /\ \E h \in DOMAIN fileAssemblies :
               /\ h = t.hash8 \/ t.hash8 \notin DOMAIN fileAssemblies
               /\ tasks' = Replace(t, [t EXCEPT !.pc = "d_store",
                                               !.asm = fileAssemblies[h]])
          /\ UNCHANGED <<objs, fileAssemblies>>
  /\ UNCHANGED <<domain, assemblyMu, files, now, sent, events, scriptChunks, stats,
                 crashed>>

\* s.assemblyMu.Lock(); get or create the assembly; s.assemblyMu.Unlock()
DataLock(t) ==
  /\ t.pc = "d_lock"
  /\ ~assemblyMu
  /\ IF t.hash8 \notin DOMAIN fileAssemblies
     THEN /\ objs' = Append(objs, NewAssembly(UnknownName(t.hash8), t.hash8, -1, 0, -1))
          /\ fileAssemblies' = [h \in DOMAIN fileAssemblies \cup {t.hash8} |->
                                  IF h = t.hash8 THEN Len(objs) + 1
                                  ELSE fileAssemblies[h]]
          /\ tasks' = Replace(t, [t EXCEPT !.pc = "d_store", !.asm = Len(objs) + 1])
     ELSE /\ tasks' = Replace(t, [t EXCEPT !.pc = "d_store",
                                          !.asm = fileAssemblies[t.hash8]])
          /\ UNCHANGED <<objs, fileAssemblies>>
  /\ UNCHANGED <<domain, assemblyMu, files, now, sent, events, scriptChunks, stats,
                 crashed>>

\* A store that appends to the bytes a part already holds.
StorePartsAppend(parts, partNum, dataBytes) ==
  [i \in DOMAIN parts \cup {partNum} |->
     IF i = partNum
     THEN (IF i \in DOMAIN parts THEN parts[i] ELSE <<>>) \o dataBytes
     ELSE parts[i]]

\* A store into a fresh map, which drops the parts stored before.
StorePartsFresh(parts, partNum, dataBytes) == [i \in {partNum} |-> dataBytes]

\* assembly.Parts[partNum] = dataBytes
StoreParts(parts, partNum, dataBytes) ==
  [i \in DOMAIN parts \cup {partNum} |-> IF i = partNum THEN dataBytes ELSE parts[i]]

\* assembly.mu.Lock(); Parts[partNum] = dataBytes; receivedParts := len(Parts); Unlock()
DataStore(t) ==
  /\ t.pc = "d_store"
  /\ ~objs[t.asm].mu
  /\ objs' = [objs EXCEPT ![t.asm].Parts = StoreParts(@, t.rec.partNum, t.rec.dataBytes)]
  /\ tasks' = Replace(t, [t EXCEPT !.pc = "d_check",
                                  !.receivedParts = Cardinality(DOMAIN objs'[t.asm].Parts),
                                  !.dup = /\ t.rec.partNum \in DOMAIN objs[t.asm].Parts
                                          /\ objs[t.asm].Parts[t.rec.partNum]
                                               = t.rec.dataBytes])
  /\ UNCHANGED <<domain, fileAssemblies, assemblyMu, files, now, sent, events,
                 scriptChunks, stats, crashed>>

\* if assembly.TotalParts > 0 && receivedParts >= assembly.TotalParts, read
\* without the assembly lock; otherwise the handler returns true and answers OK
DataCheck(t) ==
  /\ t.pc = "d_check"
  /\ IF objs[t.asm].TotalParts > 0 /\ t.receivedParts >= objs[t.asm].TotalParts
     THEN /\ tasks' = Replace(t, [t EXCEPT !.pc = "d_verify"])
          /\ UNCHANGED <<sent, stats>>
     ELSE /\ tasks' = Remove(t)
          /\ Reply(t, OkAnswers(t.name, t.qtype), "ok", TRUE)
  /\ UNCHANGED <<domain, objs, fileAssemblies, assemblyMu, files, now, events,
                 scriptChunks, crashed>>

\* assembly.mu.Lock(); allParts over 1..TotalParts; Unlock();
\* if allParts { go s.assembleAndSaveFile(hash8) }; return true
DataVerify(t) ==
  /\ t.pc = "d_verify"
  /\ ~objs[t.asm].mu
  /\ tasks' = IF AllParts(objs[t.asm].Parts, objs[t.asm].TotalParts)
              THEN Spawn(Remove(t), NewTask("assemble", "a_lookup", <<>>, 0, Rejected,
                                            t.hash8, 0))
              ELSE Remove(t)
  /\ Reply(t, OkAnswers(t.name, t.qtype), "ok", TRUE)
  /\ UNCHANGED <<domain, objs, fileAssemblies, assemblyMu, files, now, events,
                 scriptChunks, crashed>>

(***************************************************************************)
(* assembleAndSaveFile and its cleanup closure.                            *)
(***************************************************************************)
\* s.assemblyMu.RLock(); assembly, exists := s.fileAssemblies[hash8]; RUnlock()
AssembleLookup(t) ==
  /\ t.pc = "a_lookup"
  /\ ~assemblyMu
  /\ tasks' = IF t.hash8 \in DOMAIN fileAssemblies
              THEN Replace(t, [t EXCEPT !.pc = "a_lock", !.asm = fileAssemblies[t.hash8]])
              ELSE Remove(t)
  /\ UNCHANGED <<domain, objs, fileAssemblies, assemblyMu, files, now, sent, events,
                 scriptChunks, stats, crashed>>

\* assembly.mu.Lock(), released by the deferred Unlock when the call returns
AssembleLock(t) ==
  /\ t.pc = "a_lock"
  /\ ~objs[t.asm].mu
  /\ objs' = [objs EXCEPT ![t.asm].mu = TRUE]
  /\ tasks' = Replace(t, [t EXCEPT !.pc = "a_save"])
  /\ UNCHANGED <<domain, fileAssemblies, assemblyMu, files, now, sent, events,
                 scriptChunks, stats, crashed>>

\* The name assembleAndSaveFile saves under.
SafeFilename(assembly, hash8) ==
  IF sanitizeFilename(assembly.Filename) = <<>> THEN FileName(hash8)
  ELSE sanitizeFilename(assembly.Filename)

\* The bytes assembleAndSaveFile builds from an assembly.
FileData(assembly) == AssembleParts(assembly.Parts, 1, assembly.TotalParts, <<>>)

\* An abort that marks the assembly completed and starts the cleanup closure.
AssembleAbortCompleted(t) ==
  /\ t.pc = "a_save"
  /\ ~FileData(objs[t.asm]).ok
  /\ objs' = [objs EXCEPT ![t.asm].CompletedAt = now, ![t.asm].mu = FALSE]
  /\ tasks' = Spawn(Remove(t), NewTask("cleanup", "c_sleep", <<>>, 0, Rejected,
                                       t.hash8, t.asm))
  /\ UNCHANGED <<domain, fileAssemblies, assemblyMu, files, now, sent, events,
                 scriptChunks, stats, crashed>>

\* The loop finds a part of 1..TotalParts absent: log, return
AssembleAbort(t) ==
  /\ t.pc = "a_save"
  /\ ~FileData(objs[t.asm]).ok
  /\ objs' = [objs EXCEPT ![t.asm].mu = FALSE]
  /\ tasks' = Remove(t)
  /\ UNCHANGED <<domain, fileAssemblies, assemblyMu, files, now, sent, events,
                 scriptChunks, stats, crashed>>

\* The loop, os.WriteFile succeeding, CompletedAt = time.Now() and the start of
\* the cleanup closure, all under assembly.mu.  A start record's write of
\* TotalParts or Filename, which does not take assembly.mu, is ordered before
\* or after this step.
\* A save that deletes the map entry itself, under assemblyMu.Lock, while it
\* still holds the assembly's lock.
AssembleSaveDeleting(t) ==
  /\ t.pc = "a_save"
  /\ FileData(objs[t.asm]).ok
  /\ ~assemblyMu
  /\ ~ReadLocked
  /\ LET safeFilename == SafeFilename(objs[t.asm], t.hash8)
     IN files' = [f \in DOMAIN files \cup {safeFilename} |->
                    IF f = safeFilename THEN FileData(objs[t.asm]).fileData
                    ELSE files[f]]
  /\ objs' = [objs EXCEPT ![t.asm].CompletedAt = now, ![t.asm].mu = FALSE]
  /\ now' = now + 1
  /\ tasks' = Remove(t)
  /\ fileAssemblies' = [h \in DOMAIN fileAssemblies \ {t.hash8} |-> fileAssemblies[h]]
  /\ UNCHANGED <<domain, assemblyMu, sent, events, scriptChunks, stats, crashed>>

AssembleSave(t) ==
  /\ t.pc = "a_save"
  /\ FileData(objs[t.asm]).ok
  /\ LET safeFilename == SafeFilename(objs[t.asm], t.hash8)
     IN files' = [f \in DOMAIN files \cup {safeFilename} |->
                    IF f = safeFilename THEN FileData(objs[t.asm]).fileData
                    ELSE files[f]]
  /\ objs' = [objs EXCEPT ![t.asm].CompletedAt = now, ![t.asm].mu = FALSE]
  /\ now' = now + 1
  /\ tasks' = Spawn(Remove(t), NewTask("cleanup", "c_sleep", <<>>, 0, Rejected,
                                       t.hash8, t.asm))
  /\ UNCHANGED <<domain, fileAssemblies, assemblyMu, sent, events, scriptChunks, stats,
                 crashed>>

\* os.WriteFile fails: the error is logged and the call returns
AssembleWriteFail(t) ==
  /\ t.pc = "a_save"
  /\ FileData(objs[t.asm]).ok
  /\ objs' = [objs EXCEPT ![t.asm].mu = FALSE]
  /\ tasks' = Remove(t)
  /\ UNCHANGED <<domain, fileAssemblies, assemblyMu, files, now, sent, events,
                 scriptChunks, stats, crashed>>

\* A cleanup that deletes whatever assembly the map holds under the hash8.
CleanupAny(t) ==
  /\ t.pc = "c_sleep"
  /\ ~assemblyMu
  /\ fileAssemblies' = [h \in DOMAIN fileAssemblies \ {t.hash8} |-> fileAssemblies[h]]
  /\ tasks' = Remove(t)
  /\ UNCHANGED <<domain, objs, assemblyMu, files, now, sent, events, scriptChunks,
                 stats, crashed>>

\* A cleanup that ends without deleting the entry.
CleanupKeep(t) ==
  /\ t.pc = "c_sleep"
  /\ ~assemblyMu
  /\ tasks' = Remove(t)
  /\ UNCHANGED <<domain, objs, fileAssemblies, assemblyMu, files, now, sent, events,
                 scriptChunks, stats, crashed>>

\* After the sleep: delete the entry if it still is the assembly that was saved
Cleanup(t) ==
  /\ t.pc = "c_sleep"
  /\ ~assemblyMu
  /\ fileAssemblies' = IF t.hash8 \in DOMAIN fileAssemblies
                          /\ fileAssemblies[t.hash8] = t.asm
                       THEN [h \in DOMAIN fileAssemblies \ {t.hash8} |-> fileAssemblies[h]]
                       ELSE fileAssemblies
  /\ tasks' = Remove(t)
  /\ UNCHANGED <<domain, objs, assemblyMu, files, now, sent, events, scriptChunks,
                 stats, crashed>>

(***************************************************************************)
(* The reassembly engine under arbitrary packet arrival: one transfer      *)
(* hash8 under the configured domain example.com.                          *)
(***************************************************************************)
Hash1 == <<"d", "e", "a", "d", "b", "e", "e", "f">>
PayloadHex == {<<"4", "1">>, <<"4", "2", "4", "3">>}

Digit(n) == <<Digits[n + 1]>>

\* filename_hex.total_parts.chunk_size.total_bytes.start.hash8.<domain>
StartName(hash8, total, dom) ==
  << <<"6", Digits[total + 1]>>, Digit(total), <<"4">>, <<"8">>, StartLabel, hash8 >> \o dom

\* data_hex.part_num.hash8.<domain>
DataName(hash8, partNum, hex, dom) == <<hex, Digit(partNum), hash8>> \o dom

\* counter.missing.hash8.<domain>
MissingName(hash8, counter, dom) == <<Digit(counter), MissingLabel, hash8>> \o dom

\* One more part than the README says a missing query reports.
BigTotal == DocMaxMissing + 1
Totals == 1..MaxTotal \cup {BigTotal}

EngineNames ==
  {StartName(Hash1, total, ExampleCom) : total \in Totals}
  \cup {DataName(Hash1, n, hex, ExampleCom) : n \in 1..MaxPart, hex \in PayloadHex}
  \cup {MissingName(Hash1, 0, ExampleCom)}

LoadedScripts == (LinuxLabel :> << <<97, 98>>, <<99>> >>)

InitServer ==
  /\ objs = <<>>
  /\ fileAssemblies = <<>>
  /\ assemblyMu = FALSE
  /\ tasks = EmptyBag
  /\ files = <<>>
  /\ now = 1
  /\ sent = EmptyBag
  /\ events = 0
  /\ scriptChunks = LoadedScripts
  /\ stats = NoStats
  /\ crashed = FALSE

InitEnv ==
  /\ expect = <<>>
  /\ script = [pc |-> "off"]
  /\ codec = [stage |-> "off"]

Init ==
  /\ domain = ExampleCom
  /\ InitServer
  /\ InitEnv

Arrive == (\E name \in EngineNames : Deliver(name, TypeTXT)) /\ UNCHANGED envVars
StepMissingLookup == (\E t \in Running : MissingLookup(t)) /\ UNCHANGED envVars
StepMissingTotal == (\E t \in Running : MissingTotal(t)) /\ UNCHANGED envVars
StepMissingScan == (\E t \in Running : MissingScan(t)) /\ UNCHANGED envVars
StepStartLock == (\E t \in Running : StartLock(t)) /\ UNCHANGED envVars
StepStartWrite == (\E t \in Running : StartWrite(t)) /\ UNCHANGED envVars
StepDataLock == (\E t \in Running : DataLock(t)) /\ UNCHANGED envVars
StepDataStore == (\E t \in Running : DataStore(t)) /\ UNCHANGED envVars
StepDataCheck == (\E t \in Running : DataCheck(t)) /\ UNCHANGED envVars
StepDataVerify == (\E t \in Running : DataVerify(t)) /\ UNCHANGED envVars
StepAssembleLookup == (\E t \in Running : AssembleLookup(t)) /\ UNCHANGED envVars
StepAssembleLock == (\E t \in Running : AssembleLock(t)) /\ UNCHANGED envVars
StepAssembleAbort == (\E t \in Running : AssembleAbort(t)) /\ UNCHANGED envVars
StepAssembleSave == (\E t \in Running : AssembleSave(t)) /\ UNCHANGED envVars
StepAssembleWriteFail == (\E t \in Running : AssembleWriteFail(t)) /\ UNCHANGED envVars
StepCleanup == (\E t \in Running : Cleanup(t)) /\ UNCHANGED envVars

RequestStep ==
  \/ StepMissingLookup
  \/ StepMissingTotal
  \/ StepMissingScan
  \/ StepStartLock
  \/ StepStartWrite
  \/ StepDataLock
  \/ StepDataStore
  \/ StepDataCheck
  \/ StepDataVerify

AssembleStep ==
  \/ StepAssembleLookup
  \/ StepAssembleLock
  \/ StepAssembleAbort
  \/ StepAssembleSave
  \/ StepCleanup

Next ==
  \/ Arrive
  \/ RequestStep
  \/ AssembleStep
  \/ StepAssembleWriteFail

vars == <<engineVars, envVars>>

Spec == Init /\ [][Next]_vars

(***************************************************************************)
(* Properties of the reassembly engine.                                    *)
(***************************************************************************)
Sent == BagToSet(sent)

\* The task t leaves the position it is at in this step.
Steps(t) == CopiesIn(t, tasks') < CopiesIn(t, tasks)

\* The response written in this step.
Written(r) == CopiesIn(r, sent') > CopiesIn(r, sent)

\* The number a TXT record spells in decimal, -1 when it is not one
\* length-prefixed string of digits.
RECURSIVE DigitsValue(_)
DigitsValue(bs) == IF bs = <<>> THEN 0
                   ELSE DigitsValue(SubSeq(bs, 1, Len(bs) - 1)) * 10 + (bs[Len(bs)] - 48)
TxtNumber(rr) ==
  IF /\ rr.Type = TypeTXT
     /\ Len(rr.Data) >= 2
     /\ rr.Data[1] = Len(rr.Data) - 1
     /\ \A i \in 2..Len(rr.Data) : rr.Data[i] \in 48..57
  THEN DigitsValue(Tail(rr.Data))
  ELSE -1

Rcode(msg) == msg.Header.Flags % 16

\* C1: a TXT missing query for an assembly with TotalParts = T > 0 is answered
\* with exactly one TXT record per part number of 1..T that is not a key of
\* Parts, in strictly ascending order and without duplicates.
C1_MissingExact ==
  [][\A t \in Running :
       (t.pc = "m_scan" /\ Steps(t)) =>
         \E r \in BagToSet(sent') :
           /\ Written(r)
           /\ LET answers == r.msg.Answers
                  assembly == objs[t.asm]
              IN /\ {TxtNumber(answers[i]) : i \in 1..Len(answers)}
                      = (1..assembly.TotalParts) \ DOMAIN assembly.Parts
                 /\ \A i, j \in 1..Len(answers) :
                      i < j => TxtNumber(answers[i]) < TxtNumber(answers[j])]_vars

\* A missing query was answered with the single number 2: part 1 of a
\* two-part transfer was stored and part 2 was not.
C1_Witness ==
  \E r \in Sent : /\ r.tag = "missing"
                  /\ Len(r.msg.Answers) = 1
                  /\ TxtNumber(r.msg.Answers[1]) = 2

(***************************************************************************)
(* The engine after it has answered one missing query for a hash8 it does  *)
(* not know; events counts the packets that arrive from then on.           *)
(***************************************************************************)
AskedTask ==
  LET name == MissingName(Hash1, 0, ExampleCom)
  IN NewTask("missing", "m_lookup", name, TypeTXT, DynamicRecord(name, ExampleCom), Hash1, 0)

InitAsked ==
  /\ domain = ExampleCom
  /\ objs = <<>>
  /\ fileAssemblies = <<>>
  /\ assemblyMu = FALSE
  /\ tasks = EmptyBag
  /\ files = <<>>
  /\ now = 1
  /\ sent = SetToBag({Response(AskedTask, ZoneAnswers(AskedTask), "unknown")})
  /\ events = 0
  /\ scriptChunks = LoadedScripts
  /\ stats = RecordResponse(RecordQuery(NoStats), FALSE)
  /\ crashed = FALSE
  /\ InitEnv

SpecAsked == InitAsked /\ [][Next]_vars

\* C3: the response to a missing query on a completed transfer differs in
\* response code or answer section from the response to a missing query on an
\* unknown hash8 or on an assembly whose TotalParts is unknown.
C3_DoneDistinct ==
  \A r1, r2 \in Sent :
    (r1.tag = "complete" /\ r2.tag \in {"unknown", "unknownTotal"}) =>
      (Rcode(r1.msg) # Rcode(r2.msg) \/ r1.msg.Answers # r2.msg.Answers)

\* The bytes of parts 1..i-1 laid end to end have this length.
RECURSIVE Offset(_, _)
Offset(parts, i) == IF i <= 1 THEN 0 ELSE Offset(parts, i - 1) + Len(parts[i - 1])

\* bytes is Parts[1] ++ ... ++ Parts[total]: part i occupies the bytes after
\* those of parts 1..i-1.
IsConcatenation(bytes, parts, total) ==
  /\ \A i \in 1..total : i \in DOMAIN parts
  /\ Len(bytes) = Offset(parts, total + 1)
  /\ \A i \in 1..total :
       SubSeq(bytes, Offset(parts, i) + 1, Offset(parts, i + 1)) = parts[i]

\* C4: whenever assembleAndSaveFile writes a file, the bytes written are
\* Parts[1] ++ Parts[2] ++ ... ++ Parts[TotalParts] in ascending part number.
C4_FileIsConcatenation ==
  [][\A t \in Running :
       (t.pc = "a_save" /\ Steps(t)
          /\ objs'[t.asm].CompletedAt # objs[t.asm].CompletedAt) =>
         LET assembly == objs[t.asm]
             name == SafeFilename(assembly, t.hash8)
         IN /\ name \in DOMAIN files'
            /\ IsConcatenation(files'[name], assembly.Parts, assembly.TotalParts)]_vars

\* A two-part transfer was saved whose first part is the two-byte payload and
\* whose second part is the one-byte payload.
C4_Witness ==
  \E a \in 1..Len(objs) :
    /\ objs[a].CompletedAt # 0
    /\ objs[a].TotalParts = 2
    /\ SafeFilename(objs[a], objs[a].Hash) \in DOMAIN files
    /\ files[SafeFilename(objs[a], objs[a].Hash)] = <<66, 67, 65>>

\* C5: a missing query is never answered with more than 8 TXT records.
C5_AtMostEight ==
  \A r \in Sent :
    r.tag \in {"missing", "complete", "allReceived"} =>
      Len(r.msg.Answers) <= DocMaxMissing

\* The fields of an assembly, CompletedAt as set or unset.
AssemblyState(a) ==
  [Filename |-> a.Filename, TotalParts |-> a.TotalParts, ChunkSize |-> a.ChunkSize,
   TotalBytes |-> a.TotalBytes, Parts |-> a.Parts, completed |-> a.CompletedAt # 0]

NextWriteOk ==
  \/ Arrive
  \/ RequestStep
  \/ AssembleStep

SpecWriteOk == Init /\ [][NextWriteOk]_vars

\* No request handler and no assembleAndSaveFile call is in flight.
Quiescent == \A t \in Running : t.kind = "cleanup"

\* C2: once TotalParts is known and every part 1..TotalParts is stored, the
\* file is assembled and written without a further data record: when nothing
\* is in flight any more, the complete assembly has been saved.
C2_AssembledWithoutMoreData ==
  \A h \in DOMAIN fileAssemblies :
    LET assembly == objs[fileAssemblies[h]]
    IN (/\ Quiescent
        /\ assembly.TotalParts > 0
        /\ AllParts(assembly.Parts, assembly.TotalParts))
       => assembly.CompletedAt # 0

(***************************************************************************)
(* N data records for distinct parts of one transfer handled concurrently: *)
(* the handlers have been started, the assembly is absent or was created   *)
(* by a start record for at least those parts.                             *)
(***************************************************************************)
ConcParts == SUBSET (1..MaxConc) \ {{}}

ConcTask(partNum, hex) ==
  LET name == DataName(Hash1, partNum, hex, ExampleCom)
  IN NewTask("data", "d_lock", name, TypeTXT, DynamicRecord(name, ExampleCom), Hash1, 0)

StartTask(total) ==
  LET name == StartName(Hash1, total, ExampleCom)
  IN NewTask("start", "s_lock", name, TypeTXT, DynamicRecord(name, ExampleCom), Hash1, 0)

InitConc ==
  /\ domain = ExampleCom
  /\ \E P \in ConcParts :
       \E pay \in [P -> PayloadHex] :
         \E total \in {-1} \cup {n \in 1..MaxConc : \A q \in P : q <= n} :
           /\ tasks = SetToBag({ConcTask(q, pay[q]) : q \in P})
           /\ expect = [q \in P |-> HexDecodeString(pay[q]).bytes]
           /\ events = Cardinality(P) + (IF total = -1 THEN 0 ELSE 1)
           /\ stats = [TotalQueries |-> Cardinality(P) + (IF total = -1 THEN 0 ELSE 1),
                       SuccessfulResps |-> IF total = -1 THEN 0 ELSE 1,
                       FailedResps |-> 0]
           /\ IF total = -1
              THEN /\ objs = <<>>
                   /\ fileAssemblies = <<>>
                   /\ sent = EmptyBag
              ELSE LET rec == StartTask(total).rec
                   IN /\ objs = <<NewAssembly(rec.filename, Hash1, rec.totalParts,
                                              rec.chunkSize, rec.totalBytes)>>
                      /\ fileAssemblies = (Hash1 :> 1)
                      /\ sent = SetToBag({Response(StartTask(total),
                                                   OkAnswers(StartTask(total).name, TypeTXT),
                                                   "ok")})
  /\ assemblyMu = FALSE
  /\ files = <<>>
  /\ now = 1
  /\ scriptChunks = LoadedScripts
  /\ crashed = FALSE
  /\ script = [pc |-> "off"]
  /\ codec = [stage |-> "off"]

NextConc ==
  \/ StepDataLock
  \/ StepDataStore
  \/ StepDataCheck
  \/ StepDataVerify
  \/ StepAssembleLookup
  \/ StepAssembleLock
  \/ StepAssembleSave
  \/ StepAssembleWriteFail
  \/ StepCleanup

SpecConc == InitConc /\ [][NextConc]_vars

\* C8: when the N concurrent handlers for N distinct part numbers have
\* returned, Parts of the one assembly of the hash8 has exactly those N keys,
\* each mapped to the bytes of its own data record.
C8_ConcurrentParts ==
  (\A t \in Running : t.kind # "data") =>
    /\ Len(objs) = 1
    /\ objs[1].Hash = Hash1
    /\ objs[1].Parts = expect

\* Three handlers have returned and the assembly was created by one of them.
C8_Witness ==
  /\ \A t \in Running : t.kind # "data"
  /\ Cardinality(DOMAIN expect) >= 3
  /\ Len(objs) = 1
  /\ objs[1].TotalParts = -1
  /\ Cardinality(DOMAIN objs[1].Parts) >= 3

(***************************************************************************)
(* The engine with no domain suffix configured.                            *)
(***************************************************************************)
\* 48656c6c6f.1.deadbeef
HelloName == << <<"4", "8", "6", "5", "6", "c", "6", "c", "6", "f">>, <<"1">>, Hash1 >>

\* The payload split over two labels: 41.42.<part_num>.hash8
SplitDataName(hash8, partNum) == << <<"4", "1">>, <<"4", "2">>, Digit(partNum), hash8 >>

NoDomainNames ==
  {HelloName, MissingName(Hash1, 0, <<>>)}
  \cup {SplitDataName(Hash1, n) : n \in 1..MaxPart}
  \cup {StartName(Hash1, total, <<>>) : total \in 1..MaxTotal}

InitNoDomain ==
  /\ domain = <<>>
  /\ InitServer
  /\ InitEnv

ArriveNoDomain ==
  (\E name \in NoDomainNames : Deliver(name, TypeTXT)) /\ UNCHANGED envVars

NextNoDomain ==
  \/ ArriveNoDomain
  \/ RequestStep
  \/ AssembleStep
  \/ StepAssembleWriteFail

SpecNoDomain == InitNoDomain /\ [][NextNoDomain]_vars

\* C9: with no domain suffix configured, a three-label name
\* payloadHex.partNum.hash8 with valid fields is handled as a data record:
\* it is acknowledged and the hash8 has an assembly holding that part.
C9_ThreeLabelData ==
  \A r \in Sent :
    LET name == r.msg.Questions[1].Name
    IN (domain = <<>> /\ Len(name) = 3 /\ ParseDataRecord(name).ok) =>
         /\ r.tag = "ok"
         /\ \E a \in 1..Len(objs) :
              /\ objs[a].Hash = ParseDataRecord(name).hash8
              /\ ParseDataRecord(name).partNum \in DOMAIN objs[a].Parts

(***************************************************************************)
(* The sender script (script.sh) talking to the server over a network that *)
(* may lose any query and any response.                                    *)
(***************************************************************************)
ScriptFile == <<65, 66, 67>>
ScriptFilename == <<102>>
ScriptChunkSize == 2

HexChar(n) == IF n < 10 THEN Digits[n + 1] ELSE HexLower[n - 9]

\* xxd -p | tr -d '\n'
RECURSIVE Xxd(_)
Xxd(bytes) == IF bytes = <<>> THEN <<>>
              ELSE <<HexChar(Head(bytes) \div 16), HexChar(Head(bytes) % 16)>> \o Xxd(Tail(bytes))

\* split_hex_labels: labels of at most 63 characters
RECURSIVE SplitHexLabels(_)
SplitHexLabels(hex) ==
  IF Len(hex) <= MaxLabelLen THEN (IF hex = <<>> THEN <<>> ELSE <<hex>>)
  ELSE <<SubSeq(hex, 1, MaxLabelLen)>> \o SplitHexLabels(SubSeq(hex, MaxLabelLen + 1, Len(hex)))

FileSize == Len(ScriptFile)
TotalPartsOf(fileSize, chunkSize) == (fileSize + chunkSize - 1) \div chunkSize
ScriptTotalParts == TotalPartsOf(FileSize, ScriptChunkSize)

\* dd if=$file bs=1 skip=$chunk_offset count=$chunk_size
Chunk(partNum) ==
  LET chunkOffset == (partNum - 1) * ScriptChunkSize
      last == IF chunkOffset + ScriptChunkSize < FileSize
              THEN chunkOffset + ScriptChunkSize ELSE FileSize
  IN SubSeq(ScriptFile, chunkOffset + 1, last)

StartQuery ==
  SplitHexLabels(Xxd(ScriptFilename))
  \o <<Digit(ScriptTotalParts), Digit(ScriptChunkSize), Digit(FileSize), StartLabel, Hash1>>
  \o ExampleCom

DataQuery(partNum) ==
  SplitHexLabels(Xxd(Chunk(partNum))) \o <<Digit(partNum), Hash1>> \o ExampleCom

MissingQuery(retryCount) == MissingName(Hash1, retryCount, ExampleCom)

\* The query reaches the server, or is lost on the way.
Send(name) ==
  \/ Receive(name, TypeTXT)
  \/ UNCHANGED engineVars

Handling(kind) == \E t \in Running : t.kind = kind

\* dig +short "$START_QUERY" TXT > /dev/null 2>&1 || true
ScriptSendStart ==
  /\ script.pc = "start"
  /\ Send(StartQuery)
  /\ script' = [script EXCEPT !.pc = "chunks", !.pending = 1..ScriptTotalParts]
  /\ UNCHANGED <<expect, codec>>

\* send_dns_query in a background job, for the first round and for a retry
ScriptSendChunk ==
  /\ script.pc = "chunks"
  /\ ~Handling("start")
  /\ \E partNum \in script.pending :
       /\ Send(DataQuery(partNum))
       /\ script' = [script EXCEPT !.pending = script.pending \ {partNum}]
  /\ UNCHANGED <<expect, codec>>

\* wait; sleep 1
ScriptWait ==
  /\ script.pc = "chunks"
  /\ script.pending = {}
  /\ ~Handling("data")
  /\ script' = [script EXCEPT !.pc = "check"]
  /\ UNCHANGED <<engineVars, expect, codec>>

\* MISSING_RESPONSE=$(dig +short "$MISSING_QUERY" TXT 2>/dev/null || echo "")
ScriptQueryMissing ==
  /\ script.pc = "check"
  /\ \/ /\ Receive(MissingQuery(script.retryCount), TypeTXT)
        /\ script' = [script EXCEPT !.pc = "response"]
     \/ /\ UNCHANGED engineVars
        /\ script' = [script EXCEPT !.pc = "done"]
  /\ UNCHANGED <<expect, codec>>

\* grep -oE '"[0-9]+"' | tr -d '"' on the TXT answers of the response
MissingChunksOf(r) ==
  {TxtNumber(r.msg.Answers[i]) : i \in 1..Len(r.msg.Answers)} \ {-1}

\* if [ -z "$MISSING_CHUNKS" ]; then break; fi; RETRY_COUNT++; resend
ScriptReadResponse ==
  /\ script.pc = "response"
  /\ ~Handling("missing")
  /\ \E missingChunks \in
          {MissingChunksOf(r) :
             r \in {x \in Sent : x.msg.Questions[1].Name = MissingQuery(script.retryCount)}}
          \cup {{}} :
       IF missingChunks = {}
       THEN script' = [script EXCEPT !.pc = "done"]
       ELSE /\ script.retryCount < MaxRetry
            /\ script' = [script EXCEPT !.pc = "chunks",
                                        !.pending = missingChunks,
                                        !.retryCount = script.retryCount + 1]
  /\ UNCHANGED <<engineVars, expect, codec>>

InitScript ==
  /\ domain = ExampleCom
  /\ InitServer
  /\ expect = <<>>
  /\ codec = [stage |-> "off"]
  /\ script = [pc |-> "start", pending |-> {}, retryCount |-> 0]

NextScript ==
  \/ ScriptSendStart
  \/ ScriptSendChunk
  \/ ScriptWait
  \/ ScriptQueryMissing
  \/ ScriptReadResponse
  \/ StepMissingLookup
  \/ StepMissingTotal
  \/ StepMissingScan
  \/ StepStartLock
  \/ StepDataLock
  \/ StepDataStore
  \/ StepDataCheck
  \/ StepDataVerify
  \/ StepAssembleLookup
  \/ StepAssembleLock
  \/ StepAssembleSave
  \/ StepAssembleWriteFail
  \/ StepCleanup

SpecScript == InitScript /\ [][NextScript]_vars

\* C6: when the script's retry loop has ended with "All chunks received",
\* the server has stored every part 1..TotalParts of the transfer.
C6_DoneMeansStored ==
  script.pc = "done" =>
    \E a \in 1..Len(objs) :
      /\ objs[a].Hash = Hash1
      /\ \A partNum \in 1..ScriptTotalParts : partNum \in DOMAIN objs[a].Parts

(***************************************************************************)
(* Round trips through the codec: a message is built, then parsed.         *)
(***************************************************************************)
CodecIDs == {1, 43981}
CodecFlags == {256, FlagResponse}
LabelOf(len) == [i \in 1..len |-> 120]
CodecNames ==
  {<<>>, <<97>>, <<97, Dot, 98, 99>>, <<97, Dot, Dot, 98>>,
   LabelOf(MaxLabelLen), LabelOf(MaxLabelLen + 1)}
CodecQuestions == [Name : CodecNames, Type : {TypeA, TypeTXT}, Class : {ClassIN}]
CodecAnswers ==
  {[Name |-> <<97, Dot, 98, 99>>, Type |-> TypeTXT, Class |-> ClassIN, TTL |-> 0,
    DataLen |-> 3, Data |-> <<2, 79, 75>>],
   [Name |-> <<97>>, Type |-> TypeA, Class |-> ClassIN, TTL |-> 300,
    DataLen |-> 4, Data |-> <<192, 0, 2, 1>>]}

SeqsUpTo(S, n) == UNION {[1..k -> S] : k \in 0..n}

CodecMessages ==
  {[Header |-> [ID |-> id, Flags |-> flags, QdCount |-> Len(qs) + extra,
                AnCount |-> Len(as), NsCount |-> 0, ArCount |-> 0],
    Questions |-> qs, Answers |-> as] :
     id \in CodecIDs, flags \in CodecFlags, extra \in {0, 1},
     qs \in SeqsUpTo(CodecQuestions, MaxQuestions), as \in SeqsUpTo(CodecAnswers, 1)}

InitCodec ==
  /\ domain = ExampleCom
  /\ InitServer
  /\ expect = <<>>
  /\ script = [pc |-> "off"]
  /\ \E m \in CodecMessages : codec = [stage |-> "message", msg |-> m]

CodecToBytes ==
  /\ codec.stage = "message"
  /\ codec' = [stage |-> "bytes", msg |-> codec.msg, out |-> ToBytes(codec.msg)]
  /\ UNCHANGED <<engineVars, expect, script>>

CodecParse ==
  /\ codec.stage = "bytes"
  /\ ~codec.out.err
  /\ codec' = [stage |-> "parsed", msg |-> codec.msg, out |-> codec.out,
               parsed |-> ParseMessage(codec.out.bytes)]
  /\ UNCHANGED <<engineVars, expect, script>>

NextCodec ==
  \/ CodecToBytes
  \/ CodecParse

SpecCodec == InitCodec /\ [][NextCodec]_vars

\* A name the wire format can carry: empty, or labels of 1..63 bytes.
ValidName(name) ==
  name = <<>> \/ \A i \in 1..Len(SplitDots(name)) :
                    Len(SplitDots(name)[i]) \in 1..MaxLabelLen

ValidMessage(m) ==
  /\ m.Header.QdCount = Len(m.Questions)
  /\ m.Header.AnCount = Len(m.Answers)
  /\ \A i \in 1..Len(m.Questions) : ValidName(m.Questions[i].Name)
  /\ \A i \in 1..Len(m.Answers) : ValidName(m.Answers[i].Name)

RoundTripDone == codec.stage = "parsed" /\ ValidMessage(codec.msg)

\* C10 as stated: for a valid message M without compressed names,
\* ParseMessage(M.ToBytes()) equals M in the six header fields, the questions
\* and the answer records.
C10_RoundTrip ==
  RoundTripDone =>
    /\ ~codec.parsed.err /\ ~codec.parsed.panic
    /\ codec.parsed.msg = codec.msg

\* C10: for a valid message M without compressed names, ParseMessage(M.ToBytes())
\* has the six header fields and the questions (name, type, class) of M; the
\* answer records are not parsed, the returned message holds none.
C10_RoundTripQuestions ==
  RoundTripDone =>
    /\ ~codec.parsed.err /\ ~codec.parsed.panic
    /\ codec.parsed.msg.Header = codec.msg.Header
    /\ codec.parsed.msg.Questions = codec.msg.Questions
    /\ codec.parsed.msg.Answers = <<>>

\* A message with two questions, one under a multi-label name, and an answer
\* has made the round trip.
C10_Witness ==
  /\ RoundTripDone
  /\ Len(codec.msg.Questions) = 2
  /\ \E i \in 1..2 : Len(SplitDots(codec.msg.Questions[i].Name)) > 1
  /\ Len(codec.msg.Answers) = 1
  /\ ~codec.parsed.err

(***************************************************************************)
(* Names and packets as they come off the wire: names reached through      *)
(* chains of compression pointers, pointer loops, and every short body     *)
(* over a few telling bytes behind a header.                               *)
(***************************************************************************)
WireHeader(qdCount) ==
  HeaderBytes([ID |-> 7, Flags |-> 256, QdCount |-> qdCount, AnCount |-> 0,
               NsCount |-> 0, ArCount |-> 0])

\* The two bytes of a compression pointer to offset target.
PointerTo(target) == <<192 + (target \div 256), target % 256>>

\* The length-prefixed labels of a name, without the closing zero byte.
LabelBytesOf(name) == IF name = <<>> THEN <<>> ELSE WriteLabels(SplitDots(name))

\* Pointers i..k-1 of a chain laid out from offset first on: pointer 1 points
\* to the name at HeaderLen, pointer i > 1 to pointer i-1.
RECURSIVE ChainPointers(_, _, _)
ChainPointers(i, k, first) ==
  IF i >= k THEN <<>>
  ELSE PointerTo(IF i = 1 THEN HeaderLen ELSE first + 2 * (i - 2))
       \o ChainPointers(i + 1, k, first)

\* prefix labels, then a chain of k pointers that ends at name.
ChainInput(name, prefix, k) ==
  LET base == encodeName(name).bytes
      first == HeaderLen + Len(base)
      start == first + 2 * (k - 1)
  IN IF k = 0
     THEN [data |-> WireHeader(1) \o LabelBytesOf(prefix) \o base,
           offset |-> HeaderLen, jumps |-> 0, name |-> name, prefix |-> prefix]
     ELSE [data |-> WireHeader(1) \o base \o ChainPointers(1, k, first)
                    \o LabelBytesOf(prefix)
                    \o PointerTo(IF k = 1 THEN HeaderLen ELSE first + 2 * (k - 2)),
           offset |-> start, jumps |-> k, name |-> name, prefix |-> prefix]

\* prefix labels, then a pointer to itself (n = 1) or two pointers to each other.
LoopInput(prefix, n) ==
  LET at == HeaderLen + Len(LabelBytesOf(prefix))
  IN [data |-> WireHeader(1) \o LabelBytesOf(prefix)
               \o (IF n = 1 THEN PointerTo(at) ELSE PointerTo(at + 2) \o PointerTo(at)),
      offset |-> HeaderLen, jumps |-> MaxChain + 1, name |-> <<>>, prefix |-> prefix]

WireNames == {<<>>, <<97>>, <<97, Dot, 98, 99>>}
WirePrefixes == {<<>>, <<120>>, <<120, Dot, 121, 122>>}

NameInputs ==
  {ChainInput(name, prefix, k) : name \in WireNames, prefix \in WirePrefixes,
                                 k \in 0..MaxChain}
  \cup {LoopInput(prefix, n) : prefix \in WirePrefixes, n \in {1, 2}}

\* A label byte, a zero, label lengths, a pointer byte and the pointer's low
\* byte to the first byte behind the header.
WireBytes == {0, 1, 2, 97, 192, HeaderLen}

\* The dot-joined string of the fully expanded name.
Expanded(in) ==
  IF in.prefix = <<>> THEN in.name
  ELSE IF in.name = <<>> THEN in.prefix
  ELSE in.prefix \o <<Dot>> \o in.name

\* Two questions whose names end in compression pointers.  The first name is
\* prefix and a pointer that reaches name through k pointers in all; the
\* second name is one pointer to name.  The pointers after the first and the
\* name lie behind the questions, each followed by four bytes that are not
\* the type and class of a question.
TypeClass(qtype, qclass) == PutUint16(qtype) \o PutUint16(qclass)
NotTypeClass == <<0, 77, 0, 78>>

RECURSIVE LaterPointers(_, _, _)
LaterPointers(j, k, area) ==
  IF j >= k THEN <<>>
  ELSE PointerTo(area + 6 * j) \o NotTypeClass \o LaterPointers(j + 1, k, area)

PointerQuestions(name, prefix, k) ==
  LET first == LabelBytesOf(prefix) \o PointerTo(0)
      area == HeaderLen + Len(first) + 4 + 2 + 4
      target == area + 6 * (k - 1)
  IN [data |-> WireHeader(2)
               \o LabelBytesOf(prefix) \o PointerTo(area) \o TypeClass(TypeTXT, ClassIN)
               \o PointerTo(target) \o TypeClass(TypeA, ClassIN)
               \o LaterPointers(1, k, area)
               \o encodeName(name).bytes \o NotTypeClass,
      jumps |-> k,
      questions |-> << [Name |-> Expanded([name |-> name, prefix |-> prefix]),
                        Type |-> TypeTXT, Class |-> ClassIN],
                       [Name |-> name, Type |-> TypeA, Class |-> ClassIN] >>]

PointerInputs ==
  {PointerQuestions(name, prefix, k) :
     name \in WireNames \ {<<>>}, prefix \in WirePrefixes, k \in 1..maxJumps}

PacketInputs ==
  {WireHeader(n) \o body : n \in {1, 2}, body \in SeqsUpTo(WireBytes, MaxWire)}
  \cup {SubSeq(WireHeader(1), 1, HeaderLen - 1)}
  \cup {in.data : in \in PointerInputs}

InitWire ==
  /\ domain = ExampleCom
  /\ InitServer
  /\ expect = <<>>
  /\ script = [pc |-> "off"]
  /\ \/ \E in \in NameInputs : codec = [stage |-> "name", in |-> in]
     \/ \E data \in PacketInputs : codec = [stage |-> "packet", data |-> data]

WireDecodeName ==
  /\ codec.stage = "name"
  /\ codec' = [stage |-> "decoded", in |-> codec.in,
               out |-> decodeName(codec.in.data, codec.in.offset)]
  /\ UNCHANGED <<engineVars, expect, script>>

WireParse ==
  /\ codec.stage = "packet"
  /\ codec' = [stage |-> "unpacked", data |-> codec.data,
               parsed |-> ParseMessage(codec.data)]
  /\ UNCHANGED <<engineVars, expect, script>>

NextWire ==
  \/ WireDecodeName
  \/ WireParse

SpecWire == InitWire /\ [][NextWire]_vars

\* C11: a name reached through at most 5 compression pointers decodes to the
\* dot-joined string of the expanded name; a name that needs more than 5
\* jumps, a pointer loop included, is rejected with an error.
C11_PointerChains ==
  codec.stage = "decoded" =>
    IF codec.in.jumps <= maxJumps
    THEN /\ ~codec.out.err /\ ~codec.out.panic
         /\ codec.out.name = Expanded(codec.in)
    ELSE codec.out.err /\ ~codec.out.panic

\* A two-label name behind a two-label prefix was decoded through exactly 5
\* pointers, and a chain of 6 was rejected.
C11_Witness ==
  /\ codec.stage = "decoded"
  /\ codec.in.jumps = maxJumps
  /\ codec.out.name = <<120, Dot, 121, 122, Dot, 97, Dot, 98, 99>>

\* C12: ParseMessage returns a message or an error for every input and never
\* faults.
C12_NeverFaults ==
  codec.stage = "unpacked" => ~codec.parsed.panic

(***************************************************************************)
(* handleRequest from the bytes of a packet (server.go): ParseMessage,     *)
(* then the handlers, then the response.  codec holds the last packet and  *)
(* the IDs of the packets ParseMessage accepted: both are history.         *)
(***************************************************************************)
\* The character of a name byte; bytes outside the model's alphabet read "*".
CharOf(b) == IF b \in 48..57 THEN Digits[b - 47]
             ELSE IF b \in 97..122 THEN Lowercase[b - 96]
             ELSE IF b \in 65..90 THEN Uppercase[b - 64]
             ELSE IF b = 45 THEN "-"
             ELSE "*"

\* The labels strings.Split(name, ".") gives the handlers for a decoded name.
LabelsOf(name) ==
  IF name = <<>> THEN <<>>
  ELSE LET parts == SplitDots(name)
       IN [i \in DOMAIN parts |-> [j \in DOMAIN parts[i] |-> CharOf(parts[i][j])]]

\* if err != nil { log.Printf("Error parsing query: %v", err); return }: the
\* statistics after a packet that ParseMessage failed on.
ParseFailureCounted(st) == RecordResponse(st, FALSE)
ParseFailure(st) == st

\* handleRequest(data, clientAddr) for a packet of at most one question.
handleRequest(data) ==
  LET query == ParseMessage(data)
  IN /\ ~crashed
     /\ Len(query.msg.Questions) <= 1
     /\ IF query.panic
        THEN /\ crashed' = TRUE
             /\ tasks' = EmptyBag
             /\ events' = events + 1
             /\ UNCHANGED <<domain, objs, fileAssemblies, assemblyMu, files, now, sent,
                            scriptChunks, stats>>
        ELSE IF query.err
        THEN /\ events' = events + 1
             /\ stats' = ParseFailure(stats)
             /\ UNCHANGED <<domain, objs, fileAssemblies, assemblyMu, tasks, files, now,
                            sent, scriptChunks, crashed>>
        ELSE IF query.msg.Questions = <<>>
        THEN /\ events' = events + 1
             /\ sent' = sent (+) SetToBag({[tag |-> "empty",
                                           msg |-> BuildResponse(query.msg, <<>>,
                                                                 RcodeNXDomain)]})
             /\ stats' = RecordResponse(stats, FALSE)
             /\ UNCHANGED <<domain, objs, fileAssemblies, assemblyMu, tasks, files, now,
                            scriptChunks, crashed>>
        ELSE Handle(query.msg.Header.ID, LabelsOf(query.msg.Questions[1].Name),
                    query.msg.Questions[1].Type)

\* The packet of a query with one question.
QueryBytes(id, name, qtype) ==
  ToBytes(WireMessage([Query(name, qtype) EXCEPT !.Header.ID = id])).bytes

\* A question whose only label is 64 bytes long: its length byte is not a pointer.
LongLabelPacket ==
  WireHeader(1) \o <<MaxLabelLen + 1>> \o LabelOf(MaxLabelLen + 1) \o <<0>>
  \o PutUint16(TypeA) \o PutUint16(ClassIN)

Packets ==
  {QueryBytes(1, StartName(Hash1, 1, ExampleCom), TypeTXT),
   QueryBytes(1, DataName(Hash1, 1, <<"4", "1">>, ExampleCom), TypeTXT),
   QueryBytes(2, MissingName(Hash1, 0, ExampleCom), TypeTXT),
   QueryBytes(2, WwwExampleCom, TypeA),
   SubSeq(QueryBytes(1, WwwExampleCom, TypeA), 1, HeaderLen + 5),
   SubSeq(WireHeader(1), 1, HeaderLen - 1),
   WireHeader(0),
   WireHeader(1) \o <<192>>,
   LongLabelPacket}

InitPacket ==
  /\ domain = ExampleCom
  /\ InitServer
  /\ expect = <<>>
  /\ script = [pc |-> "off"]
  /\ codec = [stage |-> "listening", accepted |-> EmptyBag]

ArrivePacket ==
  /\ events < MaxEvents
  /\ \E data \in Packets :
       /\ handleRequest(data)
       /\ codec' = [stage |-> "received", data |-> data, parsed |-> ParseMessage(data),
                    accepted |->
                      IF ParseMessage(data).err \/ ParseMessage(data).panic
                      THEN codec.accepted
                      ELSE codec.accepted
                           (+) SetToBag({ParseMessage(data).msg.Header.ID})]
  /\ UNCHANGED <<expect, script>>

NextPacket ==
  \/ ArrivePacket
  \/ RequestStep
  \/ StepAssembleLookup
  \/ StepAssembleLock
  \/ StepAssembleSave
  \/ StepCleanup

SpecPacket == InitPacket /\ [][NextPacket]_vars

\* The step takes in a packet that ParseMessage fails on.
DropsPacket ==
  /\ events' = events + 1
  /\ codec'.stage = "received"
  /\ codec'.parsed.err

\* C13: when ParseMessage fails for a received packet, the handler sends no
\* response, records neither a query nor a response outcome in the statistics,
\* and changes no assembly state.
C13_ParseFailureSilent ==
  [][DropsPacket => /\ sent' = sent
                    /\ stats' = stats
                    /\ objs' = objs
                    /\ fileAssemblies' = fileAssemblies]_vars

\* A malformed packet was dropped while a transfer was under way.
C13_Witness ==
  /\ codec.stage = "received"
  /\ codec.parsed.err
  /\ fileAssemblies # <<>>
  /\ stats.TotalQueries = events - 1
  /\ BagCardinality(sent) >= 1

\* The header IDs of the packets.
PacketIDs == {1, 2, 7}

\* The responses sent so far that carry the header ID id.
ResponsesTo(id) == CountIn({r \in Sent : r.msg.Header.ID = id}, sent)

\* C14: every received packet that ParseMessage accepts results in exactly one
\* response carrying the query's ID, whatever the question names are: once no
\* handler is in flight, each ID has as many responses as accepted packets.
C14_OneResponsePerPacket ==
  (~crashed /\ LiveHandlers = 0) =>
    \A id \in PacketIDs : ResponsesTo(id) = CopiesIn(id, codec.accepted)

(***************************************************************************)
(* The query grammar under one question at a time: names of every shape,   *)
(* well-formed and not, asked as A and as TXT of a server that is fresh or *)
(* holds a transfer of two parts with part 1 stored.  codec holds the      *)
(* question asked last: history.                                           *)
(***************************************************************************)
MaxAsked == 1

ExampleOrg == << <<"e", "x", "a", "m", "p", "l", "e">>, <<"o", "r", "g">> >>
XExampleCom == << <<"x", "e", "x", "a", "m", "p", "l", "e">>, <<"c", "o", "m">> >>
UpperExampleCom == << <<"E", "X", "A", "M", "P", "L", "E">>, <<"C", "O", "M">> >>

\* [k.]linux.script, windows.script and an upper-case spelling
ChunkLabels == {<<"0">>, <<"1">>, <<"2">>, <<"3">>, <<"-", "1">>, <<"x">>}
ChunkQuery(label) == <<label, LinuxLabel, ScriptLabel>>
ScriptPrefixes ==
  {ChunkQuery(label) : label \in ChunkLabels}
  \cup {<<LinuxLabel, ScriptLabel>>, <<WindowsLabel, ScriptLabel>>}

\* filename_hex.total_parts.chunk_size.total_bytes.start.hash8
StartFields(filenameHex, totalParts, chunkSize, totalBytes, hash8) ==
  <<filenameHex, totalParts, chunkSize, totalBytes, StartLabel, hash8>>
GoodStart == StartFields(<<"6", "2">>, <<"2">>, <<"4">>, <<"8">>, Hash1)
BadHashes == {SubSeq(Hash1, 1, 7), Hash1 \o <<"0">>}
BadStarts ==
  {StartFields(<<"6", "2">>, <<"2">>, <<"4">>, <<"8">>, h) : h \in BadHashes}
  \cup {StartFields(<<"6", "2">>, n, <<"4">>, <<"8">>, Hash1) :
          n \in {<<"0">>, <<"-", "1">>, <<"x">>}}
  \cup {StartFields(<<"6", "2">>, <<"2">>, n, <<"8">>, Hash1) :
          n \in {<<"0">>, <<"-", "4">>, <<"x">>}}
  \cup {StartFields(<<"6", "2">>, <<"2">>, <<"4">>, n, Hash1) : n \in {<<"-", "1">>, <<"x">>}}
  \cup {StartFields(f, <<"2">>, <<"4">>, <<"8">>, Hash1) : f \in {<<"6">>, <<"z", "z">>}}

\* data_hex.part_num.hash8
DataFields(dataHex, partNum, hash8) == <<dataHex, partNum, hash8>>
GoodData == {DataFields(<<"4", "2">>, n, Hash1) : n \in {<<"1">>, <<"2">>}}
BadData ==
  {DataFields(<<"4", "2">>, <<"2">>, h) : h \in BadHashes}
  \cup {DataFields(<<"4", "2">>, n, Hash1) : n \in {<<"0">>, <<"-", "1">>, <<"x">>}}
  \cup {DataFields(d, <<"2">>, Hash1) : d \in {<<"4">>, <<"z", "z">>}}

\* Names more than one handler accepts: chunk 1 of the script and a start
\* record, a missing query and a start record, the one-liner and a missing query.
ScriptAndStart ==
  StartFields(<<"0", "1">>, <<"1">>, <<"4">>, <<"8">>, Hash1) \o <<LinuxLabel, ScriptLabel>>
MissingAndStart == GoodStart \o <<MissingLabel, Hash1>>
ScriptAndMissing == <<<<"0">>, MissingLabel, Hash1, LinuxLabel, ScriptLabel>>
SharedPrefixes == {ScriptAndStart, MissingAndStart, ScriptAndMissing}

InvalidNames == {prefix \o ExampleCom : prefix \in BadStarts \cup BadData}

\* Names that do not end with ".example.com".
OutsideNames ==
  {prefix \o suffix :
     prefix \in {GoodStart, DataFields(<<"4", "2">>, <<"2">>, Hash1),
                 <<<<"0">>, MissingLabel, Hash1>>, ChunkQuery(<<"1">>),
                 <<LinuxLabel, ScriptLabel>>},
     suffix \in {ExampleOrg, XExampleCom}}
  \cup {GoodStart, ExampleCom}

\* total_parts.chunk_size.total_bytes.start.hash8 and one more label: three
\* labels before "start", none of them a filename.
ShortStart == <<<<"1">>, <<"4">>, <<"8">>, StartLabel, Hash1, <<"z">>>>

GrammarNames ==
  {prefix \o ExampleCom :
     prefix \in ScriptPrefixes \cup {GoodStart, ShortStart} \cup GoodData \cup SharedPrefixes
                \cup {<<<<"0">>, MissingLabel, Hash1>>, <<<<"w", "w", "w">>>>}}
  \cup {ChunkQuery(<<"2">>) \o UpperExampleCom}
  \cup InvalidNames
  \cup OutsideNames

\* The start record and the first data record of the transfer in progress.
HeldStart ==
  NewTask("start", "s_lock", GoodStart \o ExampleCom, TypeTXT,
          DynamicRecord(GoodStart \o ExampleCom, ExampleCom), Hash1, 0)
HeldData ==
  LET name == DataFields(<<"4", "1">>, <<"1">>, Hash1) \o ExampleCom
  IN NewTask("data", "d_lock", name, TypeTXT, DynamicRecord(name, ExampleCom), Hash1, 1)

InitGrammar ==
  /\ domain = ExampleCom
  /\ assemblyMu = FALSE
  /\ tasks = EmptyBag
  /\ files = <<>>
  /\ now = 1
  /\ events = 0
  /\ scriptChunks = LoadedScripts
  /\ crashed = FALSE
  /\ \/ /\ objs = <<>>
        /\ fileAssemblies = <<>>
        /\ sent = EmptyBag
        /\ stats = NoStats
     \/ /\ objs = <<[NewAssembly(HeldStart.rec.filename, Hash1, HeldStart.rec.totalParts,
                                 HeldStart.rec.chunkSize, HeldStart.rec.totalBytes)
                     EXCEPT !.Parts = StoreParts(<<>>, 1, HeldData.rec.dataBytes)]>>
        /\ fileAssemblies = (Hash1 :> 1)
        /\ sent = SetToBag({Response(HeldStart, OkAnswers(HeldStart.name, TypeTXT), "ok")})
                  (+) SetToBag({Response(HeldData, OkAnswers(HeldData.name, TypeTXT), "ok")})
        /\ stats = [TotalQueries |-> 2, SuccessfulResps |-> 2, FailedResps |-> 0]
  /\ expect = <<>>
  /\ script = [pc |-> "off"]
  /\ codec = [stage |-> "listening"]

Ask ==
  /\ events < MaxAsked
  /\ \E name \in GrammarNames, qtype \in {TypeA, TypeTXT} :
       /\ Receive(name, qtype)
       /\ codec' = [stage |-> "asked", name |-> name, qtype |-> qtype]
  /\ UNCHANGED <<expect, script>>

NextGrammar ==
  \/ Ask
  \/ RequestStep
  \/ StepAssembleLookup
  \/ StepAssembleLock
  \/ StepAssembleSave
  \/ StepCleanup

SpecGrammar == InitGrammar /\ [][NextGrammar]_vars

\* C15: every answer record that handleRequest places in a response (script
\* chunk, one-liner, missing-chunk number, OK acknowledgement, static zone
\* record) has TTL 0.
C15_AnswersTTLZero ==
  \A r \in Sent : \A i \in DOMAIN r.msg.Answers : r.msg.Answers[i].TTL = 0

\* Two OK acknowledgements and a record of the static zone have been sent.
C15_Witness ==
  /\ \E r \in Sent : r.tag = "zone" /\ r.msg.Answers # <<>>
  /\ \E r \in Sent : r.tag = "ok" /\ r.msg.Answers # <<>>

\* The responses sent to the question asked last.
Answered == {r \in Sent : /\ r.msg.Questions[1].Name = codec.name
                          /\ r.msg.Questions[1].Type = codec.qtype}

\* C16: for a script with N chunks, a TXT script query carrying chunk label k
\* returns exactly one TXT record holding chunk k when 1 <= k <= N, and no
\* script answer at all (it ends as NXDOMAIN) for every k outside 1..N,
\* k = 0 and negative k included.
C16_ChunkOrNothing ==
  \A label \in {l \in ChunkLabels : ~Atoi(l).err} :
    (/\ codec.stage = "asked"
     /\ codec.name = ChunkQuery(label) \o ExampleCom
     /\ codec.qtype = TypeTXT) =>
      LET k == Atoi(label).val
          chunks == scriptChunks[LinuxLabel]
      IN \A r \in Answered :
           IF k \in 1..Len(chunks)
           THEN r.msg.Answers = <<TxtRecord(codec.name, chunks[k])>>
           ELSE r.msg.Answers = <<>> /\ Rcode(r.msg) = RcodeNXDomain

\* The step takes in a question whose name does not end with ".example.com".
AsksOutside ==
  /\ events' = events + 1
  /\ codec'.stage = "asked"
  /\ codec'.name \in OutsideNames

\* C17: with a domain suffix configured, a query whose name does not end
\* (case-insensitively) with "." + domain never creates or modifies an
\* assembly and never yields script or missing answers: no handler stays in
\* flight for it and its response is the one the static zone gives.
C17_OutsideZoneOnly ==
  [][AsksOutside =>
       /\ objs' = objs
       /\ fileAssemblies' = fileAssemblies
       /\ tasks' = tasks
       /\ \E r \in BagToSet(sent') :
            /\ Written(r)
            /\ r.tag = "zone"
            /\ r.msg.Questions[1].Name = codec'.name
            /\ r.msg.Answers = convertToResourceRecords(codec'.name,
                                                        lookup(codec'.name, codec'.qtype))]_vars

\* A well-formed start record under example.org was asked of a server that
\* holds a transfer and was answered NXDOMAIN.
C17_Witness ==
  /\ codec.stage = "asked"
  /\ codec.name = GoodStart \o ExampleOrg
  /\ codec.qtype = TypeTXT
  /\ fileAssemblies # <<>>
  /\ \E r \in Answered : r.msg.Answers = <<>> /\ Rcode(r.msg) = RcodeNXDomain

\* The step starts a goroutine of one of the kinds.
Starts(kinds) ==
  \E t \in BagToSet(tasks') : t.kind \in kinds /\ CopiesIn(t, tasks') > CopiesIn(t, tasks)

\* C18: for each question the handlers are tried in the order script, missing,
\* dynamic start/data, static zone, and the first that matches is the only one
\* applied: a question the script handler answers starts no other handler and
\* touches no assembly; a name of the missing grammar goes to the missing
\* handler first, and an answer of that handler ends the request; a dynamic
\* record is not looked up in the zone.
C18_HandlerOrder ==
  [][/\ (events' = events + 1 /\ codec'.stage = "asked") =>
          LET name == codec'.name
              qtype == codec'.qtype
              scriptAnswers == handleScriptQuery(scriptChunks, name, qtype, domain)
              missing == MissingHash(name, qtype, domain)
              dynamic == DynamicRecord(name, domain)
          IN IF ~scriptAnswers.nil
             THEN /\ tasks' = tasks
                  /\ objs' = objs
                  /\ fileAssemblies' = fileAssemblies
                  /\ \E r \in BagToSet(sent') :
                       Written(r) /\ r.tag = "script" /\ r.msg.Answers = scriptAnswers.rrs
             ELSE IF missing.match
             THEN sent' = sent /\ Starts({"missing"}) /\ ~Starts({"start", "data"})
             ELSE IF dynamic.ok
             THEN sent' = sent /\ Starts({dynamic.kind})
             ELSE /\ tasks' = tasks
                  /\ \E r \in BagToSet(sent') : Written(r) /\ r.tag = "zone"
     /\ \A r \in BagToSet(sent') :
          (Written(r) /\ r.tag \in {"missing", "complete", "allReceived"}) =>
            /\ objs' = objs
            /\ fileAssemblies' = fileAssemblies
            /\ ~Starts({"missing", "start", "data", "assemble"})]_vars

\* The name that is chunk 1 of the script and a well-formed start record was
\* answered with the chunk, and no assembly was made of it.
C18_Witness ==
  /\ codec.stage = "asked"
  /\ codec.name = ScriptAndStart \o ExampleCom
  /\ codec.qtype = TypeTXT
  /\ DynamicRecord(codec.name, domain).ok
  /\ \E r \in Answered : r.tag = "script" /\ r.msg.Answers # <<>>
  /\ fileAssemblies = <<>>
  /\ tasks = EmptyBag

\* C20: a start-shaped or data-shaped name with an invalid field (hash8 not of
\* 8 characters, totalParts or chunkSize not a positive integer, totalBytes
\* negative or non-numeric, partNum below 1 or non-numeric, filename or payload
\* not valid hex) is rejected: handleDynamicRecord returns false, no handler
\* goes on with it, and the assembly map and every assembly stay as they are.
C20_InvalidRejected ==
  [][(/\ events' = events + 1
      /\ codec'.stage = "asked"
      /\ codec'.name \in InvalidNames) =>
       /\ ~DynamicRecord(codec'.name, domain).ok
       /\ objs' = objs
       /\ fileAssemblies' = fileAssemblies
       /\ tasks' = tasks
       /\ \E r \in BagToSet(sent') :
            Written(r) /\ r.tag = "zone" /\ Rcode(r.msg) = RcodeNXDomain]_vars

\* A data record with part number 0 was asked of the server holding the
\* transfer it names, and the transfer still holds part 1 only.
C20_Witness ==
  /\ codec.stage = "asked"
  /\ codec.name = DataFields(<<"4", "2">>, <<"0">>, Hash1) \o ExampleCom
  /\ Hash1 \in DOMAIN fileAssemblies
  /\ DOMAIN objs[fileAssemblies[Hash1]].Parts = {1}
  /\ \E r \in Answered : Rcode(r.msg) = RcodeNXDomain

(***************************************************************************)
(* The save step of a transfer.                                            *)
(***************************************************************************)
\* C19: for one transfer the save step (the file write and the assignment of
\* CompletedAt) happens at most once: CompletedAt is assigned only while it
\* is unset, also when data records are delivered again or concurrently
\* after all parts are present.
C19_SavedOnce ==
  [][\A a \in DOMAIN objs :
       objs'[a].CompletedAt # objs[a].CompletedAt => objs[a].CompletedAt = 0]_vars

(***************************************************************************)
(* The locks around the fields of an assembly.                             *)
(***************************************************************************)
\* The goroutine that holds assembly.mu of the object at address a across
\* steps: assembleAndSaveFile between its Lock and its deferred Unlock.
HoldsMu(t, a) == t.kind = "assemble" /\ t.pc = "a_save" /\ t.asm = a

\* C21: every read and write of a field of a published assembly is made
\* under that assembly's own mutex, so no step writes a field of an assembly
\* while another goroutine holds its mutex.
C21_FieldsUnderOwnMutex ==
  [][\A a \in DOMAIN objs :
       (objs[a].mu /\ AssemblyState(objs'[a]) # AssemblyState(objs[a])) =>
         \E t \in Running : HoldsMu(t, a) /\ Steps(t)]_vars

\* C22: assembleAndSaveFile does not hold the assembly's mutex while the
\* output file is written: the step that writes the file and sets
\* CompletedAt is taken with the mutex free, the lock having been dropped
\* after the snapshot of the parts.
C22_WriteOutsideLock ==
  [][\A t \in Running :
       (t.kind = "assemble" /\ Steps(t) /\ files' # files) => ~objs[t.asm].mu]_vars

(***************************************************************************)
(* One transfer delivered in every order: a set of records, one start      *)
(* record and some data records of one hash8, each delivered once.         *)
(***************************************************************************)
MaxData == 3

OrderStarts == {StartName(Hash1, total, ExampleCom) : total \in {1, 2}}
OrderData ==
  {DataName(Hash1, 1, <<"4", "1">>, ExampleCom),
   DataName(Hash1, 1, <<"4", "2", "4", "3">>, ExampleCom),
   DataName(Hash1, 2, <<"4", "1">>, ExampleCom)}

InitOrder ==
  /\ domain = ExampleCom
  /\ InitServer
  /\ \E start \in OrderStarts, data \in SUBSET OrderData :
       /\ Cardinality(data) <= MaxData
       /\ expect = [all |-> {start} \cup data, pending |-> {start} \cup data,
                    first |-> "none"]
  /\ script = [pc |-> "off"]
  /\ codec = [stage |-> "off"]

ArriveOrder ==
  /\ \E name \in expect.pending :
       /\ Receive(name, TypeTXT)
       /\ expect' = [expect EXCEPT !.pending = @ \ {name},
                                   !.first = IF @ = "none"
                                             THEN DynamicRecord(name, domain).kind
                                             ELSE @]
  /\ UNCHANGED <<script, codec>>

NextOrder ==
  \/ ArriveOrder
  \/ StepStartLock
  \/ StepStartWrite
  \/ StepDataLock
  \/ StepDataStore
  \/ StepDataCheck
  \/ StepDataVerify
  \/ StepAssembleLookup
  \/ StepAssembleLock
  \/ StepAssembleSave
  \/ StepAssembleWriteFail
  \/ StepCleanup

SpecOrder == InitOrder /\ [][NextOrder]_vars

\* The records of the set, parsed.
OrderRecords == {DynamicRecord(name, domain) : name \in expect.all}
OrderStart == CHOOSE r \in OrderRecords : r.kind = "start"
OrderParts == {r \in OrderRecords : r.kind = "data"}

\* The fields the set of records alone determines.
OrderFields ==
  [Filename |-> OrderStart.filename, TotalParts |-> OrderStart.totalParts,
   ChunkSize |-> OrderStart.chunkSize, TotalBytes |-> OrderStart.totalBytes,
   Parts |-> [n \in {r.partNum : r \in OrderParts} |->
                (CHOOSE r \in OrderParts : r.partNum = n).dataBytes]]

TransferFields(a) ==
  [Filename |-> a.Filename, TotalParts |-> a.TotalParts, ChunkSize |-> a.ChunkSize,
   TotalBytes |-> a.TotalBytes, Parts |-> a.Parts]

\* Every record of the set was delivered and handled.
OrderDone == expect.pending = {} /\ \A t \in Running : t.kind = "cleanup"

\* No two data records of the set carry different bytes for one part number.
OrderDistinctParts ==
  \A r1, r2 \in OrderParts : r1.partNum = r2.partNum => r1.dataBytes = r2.dataBytes

\* The assembly the first record created is still the one the map holds.
OrderSameAssembly ==
  Len(objs) = 1 /\ Hash1 \in DOMAIN fileAssemblies /\ fileAssemblies[Hash1] = 1

\* C23 as stated: whatever the order of delivery, once every record of the
\* set is handled the assembly of the hash8 holds the Filename, TotalParts,
\* ChunkSize, TotalBytes and Parts the set alone determines.
C23_AnyOrderSameFields ==
  OrderDone =>
    /\ Hash1 \in DOMAIN fileAssemblies
    /\ TransferFields(objs[fileAssemblies[Hash1]]) = OrderFields

\* C23: when the data records of the set have distinct part numbers and no
\* cleanup removed the entry between two records, every order of delivery
\* leaves the same Filename, TotalParts, ChunkSize, TotalBytes and Parts,
\* the parts a placeholder held before the start record included.
C23_DistinctPartsSameFields ==
  (OrderDone /\ OrderDistinctParts /\ OrderSameAssembly) =>
    TransferFields(objs[fileAssemblies[Hash1]]) = OrderFields

C23_Witness ==
  /\ OrderDone /\ OrderDistinctParts /\ OrderSameAssembly
  /\ expect.first = "data"
  /\ Cardinality(OrderParts) = 2
  /\ TransferFields(objs[fileAssemblies[Hash1]]) = OrderFields

(***************************************************************************)
(* A start record for a hash8 that has an assembly.                        *)
(***************************************************************************)
\* The fields of an assembly a start record does not carry.
KeptFields(a) == [Hash |-> a.Hash, Parts |-> a.Parts, CompletedAt |-> a.CompletedAt,
                  mu |-> a.mu]

\* The four fields of the assembly are those of the start record.
HoldsRecord(a, rec) ==
  /\ a.Filename = rec.filename
  /\ a.TotalParts = rec.totalParts
  /\ a.ChunkSize = rec.chunkSize
  /\ a.TotalBytes = rec.totalBytes

\* The handler of a start record that found an assembly under its hash8.
Updates(t) ==
  /\ t.kind = "start"
  /\ \/ t.pc = "s_lock" /\ t.hash8 \in DOMAIN fileAssemblies
     \/ t.pc = "s_write"

UpdatedAssembly(t) == IF t.pc = "s_write" THEN t.asm ELSE fileAssemblies[t.hash8]

\* C24: a step of a start record's handler on a hash8 that has an assembly
\* keeps the map and every other assembly as they are, changes nothing of
\* the assembly but Filename, TotalParts, ChunkSize and TotalBytes, leaves
\* them holding the record's values when it returns, and changes nothing at
\* all when the assembly already holds the record's values.
C24_StartUpdatesFourFields ==
  [][\A t \in Running :
       (Updates(t) /\ Steps(t)) =>
         LET a == UpdatedAssembly(t)
         IN /\ fileAssemblies' = fileAssemblies
            /\ DOMAIN objs' = DOMAIN objs
            /\ \A b \in DOMAIN objs : b # a => objs'[b] = objs[b]
            /\ KeptFields(objs'[a]) = KeptFields(objs[a])
            /\ t.pc = "s_write" => HoldsRecord(objs'[a], t.rec)
            /\ HoldsRecord(objs[a], t.rec) => objs' = objs]_vars

\* The same start record is being handled again on an assembly with parts.
C24_Witness ==
  \E t \in Running :
    /\ Updates(t) /\ t.pc = "s_write"
    /\ objs[t.asm].Parts # <<>>
    /\ HoldsRecord(objs[t.asm], t.rec)

(***************************************************************************)
(* The labels a start record needs before "start".                         *)
(***************************************************************************)
\* The number of labels before the first "start" of the name's prefix, -1
\* when the prefix has none.
LabelsBeforeStart(name) ==
  FirstIndex(PrefixParts(ToLower(name), ToLower(domain)), StartLabel)

\* C25: a name is taken as a start record only if at least four labels come
\* before "start": a question whose name has fewer starts no handler of a
\* start record, so it creates and updates no assembly.
C25_StartNeedsFilenameLabel ==
  [][(/\ events' = events + 1
      /\ codec'.stage = "asked"
      /\ HasDomainSuffix(ToLower(codec'.name), ToLower(domain))
      /\ LabelsBeforeStart(codec'.name) < 4) => ~Starts({"start"})]_vars

(***************************************************************************)
(* The cleanup closure of a saved assembly.                                *)
(***************************************************************************)
\* The map without the entry of hash8.
Without(hash8) == [h \in DOMAIN fileAssemblies \ {hash8} |-> fileAssemblies[h]]

\* C26: the cleanup task of a save deletes the entry of its hash8 only when
\* the map still holds the assembly object that task saved, and then deletes
\* that entry alone; when the map holds another assembly under the hash8,
\* or none, the cleanup leaves the map as it is.
C26_CleanupOwnAssemblyOnly ==
  [][\A t \in Running :
       (t.kind = "cleanup" /\ Steps(t)) =>
         /\ objs' = objs
         /\ fileAssemblies' =
              IF t.hash8 \in DOMAIN fileAssemblies /\ fileAssemblies[t.hash8] = t.asm
              THEN Without(t.hash8)
              ELSE fileAssemblies]_vars

\* The first cleanup task of an assembly that was saved twice has deleted
\* its entry, a later record has stored another assembly under the hash8,
\* and the second cleanup task of the saved assembly is still to run.
C26_Witness ==
  /\ Len(objs) = 2
  /\ objs[1].CompletedAt # 0
  /\ Hash1 \in DOMAIN fileAssemblies
  /\ fileAssemblies[Hash1] = 2
  /\ \E t \in Running : t.kind = "cleanup" /\ t.hash8 = Hash1 /\ t.asm = 1

(***************************************************************************)
(* A saved transfer and what arrives after it: one start record, data      *)
(* records and a missing query of one hash8, each delivered once, in every *)
(* order.  The goroutine of the cleanup closure runs once its sleep is     *)
(* over and assemblyMu is free, and a start handler that holds assemblyMu  *)
(* goes on to release it.                                                  *)
(***************************************************************************)
InitSaved ==
  /\ domain = ExampleCom
  /\ InitServer
  /\ \E start \in OrderStarts, data \in SUBSET OrderData :
       /\ Cardinality(data) <= MaxData - 1
       /\ expect = [all |-> {start, MissingName(Hash1, 0, ExampleCom)} \cup data,
                    pending |-> {start, MissingName(Hash1, 0, ExampleCom)} \cup data,
                    first |-> "none"]
  /\ script = [pc |-> "off"]
  /\ codec = [stage |-> "off"]

NextSaved ==
  \/ NextOrder
  \/ StepMissingLookup
  \/ StepMissingTotal
  \/ StepMissingScan

SpecSaved ==
  /\ InitSaved
  /\ [][NextSaved]_vars
  /\ WF_vars(StepCleanup)
  /\ WF_vars(StepStartWrite)

\* The map holds the assembly object a under its hash8.
InMap(a) == \E h \in DOMAIN fileAssemblies : fileAssemblies[h] = a

\* The assembly object a was saved and is in the map.
SavedInMap(a) == a <= Len(objs) /\ objs[a].CompletedAt # 0 /\ InMap(a)

\* C27: every assembly whose file was saved is eventually removed from the
\* map, whatever start records, data records and missing queries of its
\* hash8 arrive in the meantime.
C27_SavedEventuallyRemoved ==
  \A a \in 1..(MaxData + 1) : SavedInMap(a) ~> ~InMap(a)

\* The assembly was saved and removed, and every record and the missing
\* query were handled.
C27_Witness ==
  /\ Len(objs) >= 1
  /\ objs[1].CompletedAt # 0
  /\ ~InMap(1)
  /\ expect.pending = {}
  /\ \E r \in Sent : r.tag \in {"missing", "complete", "allReceived"}

(***************************************************************************)
(* Assembly attempts that abort: two start records (one part, two parts)   *)
(* and the data records of parts 1 and 2, each delivered once, in every    *)
(* order.  expect counts the attempts that ended on an absent part and on  *)
(* a failed write: history.                                                *)
(***************************************************************************)
AbortRecords ==
  OrderStarts \cup {DataName(Hash1, n, <<"4", "1">>, ExampleCom) : n \in {1, 2}}

InitAbort ==
  /\ domain = ExampleCom
  /\ InitServer
  /\ expect = [all |-> AbortRecords, pending |-> AbortRecords, first |-> "none",
               absent |-> 0, failed |-> 0]
  /\ script = [pc |-> "off"]
  /\ codec = [stage |-> "off"]

AbortAbsent ==
  /\ \E t \in Running : AssembleAbort(t)
  /\ expect' = [expect EXCEPT !.absent = @ + 1]
  /\ UNCHANGED <<script, codec>>

AbortWriteFail ==
  /\ \E t \in Running : AssembleWriteFail(t)
  /\ expect' = [expect EXCEPT !.failed = @ + 1]
  /\ UNCHANGED <<script, codec>>

NextAbort ==
  \/ ArriveOrder
  \/ StepStartLock
  \/ StepStartWrite
  \/ StepDataLock
  \/ StepDataStore
  \/ StepDataCheck
  \/ StepDataVerify
  \/ StepAssembleLookup
  \/ StepAssembleLock
  \/ StepAssembleSave
  \/ StepCleanup
  \/ AbortAbsent
  \/ AbortWriteFail

SpecAbort == InitAbort /\ [][NextAbort]_vars

\* C28: an assembly attempt that ends on an absent part or on a failed write
\* leaves CompletedAt, the Parts, the map and the files as they were and
\* starts no cleanup task; an assembly that was not completed stays so.
C28_AbortKeepsAssembly ==
  [][\A t \in Running :
       (/\ t.kind = "assemble" /\ t.pc = "a_save" /\ Steps(t)
        /\ expect'.absent + expect'.failed > expect.absent + expect.failed) =>
         /\ objs'[t.asm].CompletedAt = objs[t.asm].CompletedAt
         /\ objs'[t.asm].Parts = objs[t.asm].Parts
         /\ fileAssemblies' = fileAssemblies
         /\ files' = files
         /\ ~Starts({"cleanup"})]_vars

\* An attempt ended on the absent part 2, the data record of part 2 arrived
\* after it and started the attempt that saved both parts.
C28_Witness ==
  /\ expect.absent >= 1
  /\ Len(objs) = 1
  /\ objs[1].CompletedAt # 0
  /\ objs[1].TotalParts = 2
  /\ \E f \in DOMAIN files : Len(files[f]) = 2

(***************************************************************************)
(* sanitizeFilename on the bytes of a file name: every name of up to       *)
(* MaxName bytes over '.', '/', '\', NUL and 'a', and names of 'a's around *)
(* the length limit.  codec holds the name and what was made of it.        *)
(***************************************************************************)
MaxName == 4
MaxFilenameLen == 255

NameBytesSet == {46, 47, 92, 0, 97}
ShortNames == UNION {[1..n -> NameBytesSet] : n \in 0..MaxName}
LongNames == {[i \in 1..n |-> 97] : n \in {MaxFilenameLen, MaxFilenameLen + 1}}

InitSanitize ==
  /\ domain = ExampleCom
  /\ InitServer
  /\ expect = <<>>
  /\ script = [pc |-> "off"]
  /\ \E filename \in ShortNames \cup LongNames :
       codec = [stage |-> "named", filename |-> filename]

\* safeFilename := sanitizeFilename(assembly.Filename), file_<hash8> when empty
Sanitize ==
  /\ codec.stage = "named"
  /\ codec' = [stage |-> "sanitized", filename |-> codec.filename,
               sanitized |-> sanitizeFilename(codec.filename),
               safeFilename |-> SafeFilename([Filename |-> codec.filename], Hash1)]
  /\ UNCHANGED <<engineVars, expect, script>>

NextSanitize == Sanitize

SpecSanitize == InitSanitize /\ [][NextSanitize]_vars

\* The byte sequence holds ".." somewhere.
HasDotDot(s) == \E i \in 1..(Len(s) - 1) : s[i] = 46 /\ s[i + 1] = 46

\* C29: for every file name sanitizeFilename returns at most 255 bytes with
\* no '/', no '\', no NUL byte and no "..", and an empty result is replaced
\* by file_<hash8>.
C29_SanitizedIsSafe ==
  codec.stage = "sanitized" =>
    /\ Len(codec.sanitized) <= MaxFilenameLen
    /\ \A i \in 1..Len(codec.sanitized) : codec.sanitized[i] \notin {47, 92, 0}
    /\ ~HasDotDot(codec.sanitized)
    /\ codec.sanitized = <<>> => codec.safeFilename = FileName(Hash1)
    /\ codec.sanitized # <<>> => codec.safeFilename = codec.sanitized

(***************************************************************************)
(* The part numbers an assembly holds.                                     *)
(***************************************************************************)
\* C30: whenever an assembly's TotalParts is known (> 0), every part number
\* it holds lies in 1..TotalParts.
C30_PartsWithinTotal ==
  \A a \in DOMAIN objs :
    objs[a].TotalParts > 0 => DOMAIN objs[a].Parts \subseteq 1..objs[a].TotalParts

(***************************************************************************)
(* Completed assemblies.                                                   *)
(***************************************************************************)
\* C31: an assembly whose CompletedAt is set is complete: TotalParts > 0 and
\* Parts holds every key of 1..TotalParts, also after later start and data
\* records of its hash8.
C31_CompletedIsComplete ==
  \A a \in DOMAIN objs :
    objs[a].CompletedAt # 0 =>
      /\ objs[a].TotalParts > 0
      /\ 1..objs[a].TotalParts \subseteq DOMAIN objs[a].Parts

(***************************************************************************)
(* Where ParseMessage goes on after a compressed question name.            *)
(***************************************************************************)
\* C32: after a question name that holds a compression pointer ParseMessage
\* reads the type and class of the question, and the next question, from
\* the byte after the two bytes of the first pointer of the name: not at
\* the target of the jump and not behind a later pointer of the chain.
C32_ResumeAfterFirstPointer ==
  \A in \in PointerInputs :
    (codec.stage = "unpacked" /\ codec.data = in.data) =>
      /\ ~codec.parsed.err /\ ~codec.parsed.panic
      /\ codec.parsed.msg.Questions = in.questions

\* Two questions were read behind a name that went through 5 pointers.
C32_Witness ==
  /\ codec.stage = "unpacked"
  /\ \E in \in PointerInputs : in.jumps = maxJumps /\ codec.data = in.data
  /\ Len(codec.parsed.msg.Questions) = 2
  /\ codec.parsed.msg.Questions[1].Type = TypeTXT
  /\ codec.parsed.msg.Questions[2].Type = TypeA

(***************************************************************************)
(* The TXT records the handlers build, under a short and a long configured *)
(* domain, with both scripts loaded: one question is asked of a server     *)
(* that is fresh or holds a transfer of two parts with part 1 stored.      *)
(***************************************************************************)
\* A domain of 131 bytes: two labels of 63 bytes and "com".
LongDomain ==
  << [i \in 1..MaxLabelLen |-> "a"], [i \in 1..MaxLabelLen |-> "b"], <<"c", "o", "m">> >>
TxtDomains == {ExampleCom, LongDomain}

\* Two chunks of the Linux script, twelve of the Windows script.
BothScripts ==
  (LinuxLabel :> << <<97, 98>>, <<99>> >>) @@ (WindowsLabel :> [i \in 1..12 |-> <<100>>])

TxtPrefixes ==
  {<<LinuxLabel, ScriptLabel>>, <<WindowsLabel, ScriptLabel>>,
   ChunkQuery(<<"1">>), <<<<"1", "2">>, WindowsLabel, ScriptLabel>>,
   <<<<"0">>, MissingLabel, Hash1>>, GoodStart}
  \cup GoodData

InitTxt ==
  /\ domain \in TxtDomains
  /\ assemblyMu = FALSE
  /\ tasks = EmptyBag
  /\ files = <<>>
  /\ now = 1
  /\ events = 0
  /\ scriptChunks = BothScripts
  /\ crashed = FALSE
  /\ \/ /\ objs = <<>>
        /\ fileAssemblies = <<>>
        /\ sent = EmptyBag
        /\ stats = NoStats
     \/ LET startName == GoodStart \o domain
            dataName == DataFields(<<"4", "1">>, <<"1">>, Hash1) \o domain
            start == NewTask("start", "s_lock", startName, TypeTXT,
                             DynamicRecord(startName, domain), Hash1, 0)
            data == NewTask("data", "d_lock", dataName, TypeTXT,
                            DynamicRecord(dataName, domain), Hash1, 1)
        IN /\ objs = <<[NewAssembly(start.rec.filename, Hash1, start.rec.totalParts,
                                    start.rec.chunkSize, start.rec.totalBytes)
                        EXCEPT !.Parts = StoreParts(<<>>, 1, data.rec.dataBytes)]>>
           /\ fileAssemblies = (Hash1 :> 1)
           /\ sent = SetToBag({Response(start, OkAnswers(startName, TypeTXT), "ok")})
                     (+) SetToBag({Response(data, OkAnswers(dataName, TypeTXT), "ok")})
           /\ stats = [TotalQueries |-> 2, SuccessfulResps |-> 2, FailedResps |-> 0]
  /\ expect = <<>>
  /\ script = [pc |-> "off"]
  /\ codec = [stage |-> "listening"]

AskTxt ==
  /\ events < MaxAsked
  /\ \E prefix \in TxtPrefixes, qtype \in {TypeA, TypeTXT} :
       /\ Receive(prefix \o domain, qtype)
       /\ codec' = [stage |-> "asked", name |-> prefix \o domain, qtype |-> qtype]
  /\ UNCHANGED <<expect, script>>

NextTxt ==
  \/ AskTxt
  \/ RequestStep
  \/ StepAssembleLookup
  \/ StepAssembleLock
  \/ StepAssembleSave
  \/ StepAssembleWriteFail
  \/ StepCleanup

SpecTxt == InitTxt /\ [][NextTxt]_vars

\* The record is one length-prefixed string with a matching DataLen.
OneString(rr) ==
  /\ Len(rr.Data) >= 1
  /\ Len(rr.Data) - 1 <= 255
  /\ rr.Data[1] = Len(rr.Data) - 1
  /\ rr.DataLen = Len(rr.Data)

\* C33: every TXT record the script, missing and acknowledgement handlers
\* put into a response is one well-formed length-prefixed string: its first
\* byte is the number of text bytes that follow, at most 255, and DataLen
\* is the length of Data.
C33_TxtOneString ==
  \A r \in Sent :
    r.tag # "zone" =>
      \A i \in 1..Len(r.msg.Answers) :
        r.msg.Answers[i].Type = TypeTXT => OneString(r.msg.Answers[i])

(***************************************************************************)
(* The accept loop (server.go): Stop, handleRequests and the handlers it   *)
(* starts.  codec is the loop: its position, the shutdown channel, the     *)
(* connection and the one 512-byte buffer every read fills.  expect is the *)
(* set of handlers that were started and have not parsed yet.  A handler   *)
(* gets the slice buffer[:n], not a copy: what it parses is what the       *)
(* buffer holds when it reads it.  views are the contents its slice had    *)
(* since it was started and packet is the packet it was started for: both  *)
(* are history.  A handler that reads while the loop refills the buffer    *)
(* can see bytes of both contents; the model lets it see either content    *)
(* whole, or the header of one followed by the rest of the other.          *)
(***************************************************************************)
MaxReads == 2

LoopPackets ==
  {QueryBytes(1, DataName(Hash1, 1, <<"4", "1">>, ExampleCom), TypeTXT),
   QueryBytes(2, WwwExampleCom, TypeA)}

\* The part of the buffer the model needs: the longest packet.
BufferLen == Len(QueryBytes(1, DataName(Hash1, 1, <<"4", "1">>, ExampleCom), TypeTXT))

InitLoop ==
  /\ domain = ExampleCom
  /\ InitServer
  /\ script = [pc |-> "off"]
  /\ expect = {}
  /\ codec = [pc |-> "select", stop |-> "running", buffer |-> [i \in 1..BufferLen |-> 0],
              reads |-> 0, last |-> [packet |-> <<>>, parsed |-> <<>>]]

\* Stop: close(s.shutdown)
StopSignal ==
  /\ codec.stop = "running"
  /\ codec' = [codec EXCEPT !.stop = "signalled"]
  /\ UNCHANGED <<engineVars, expect, script>>

\* Stop: s.conn.Close()
StopClose ==
  /\ codec.stop = "signalled"
  /\ codec' = [codec EXCEPT !.stop = "closed"]
  /\ UNCHANGED <<engineVars, expect, script>>

\* A select that never takes the shutdown case.
LoopSelectDeaf ==
  /\ codec.pc = "select"
  /\ codec' = [codec EXCEPT !.pc = "read"]
  /\ UNCHANGED <<engineVars, expect, script>>

\* select { case <-s.shutdown: return; default: ... }
LoopSelect ==
  /\ codec.pc = "select"
  /\ codec' = [codec EXCEPT !.pc = IF codec.stop = "running" THEN "read" ELSE "returned"]
  /\ UNCHANGED <<engineVars, expect, script>>

\* The handler h after the buffer under its slice was filled again.
Refilled(h, buffer) == [h EXCEPT !.views = @ \cup {SubSeq(buffer, 1, h.n)}]

\* ReadFromUDP(buffer) returns a packet: go s.handleRequest(buffer[:n], clientAddr)
LoopReadPacket ==
  /\ codec.pc = "read"
  /\ codec.stop # "closed"
  /\ codec.reads < MaxReads
  /\ \E packet \in LoopPackets :
       LET buffer == packet \o SubSeq(codec.buffer, Len(packet) + 1, BufferLen)
       IN /\ codec' = [codec EXCEPT !.pc = "select", !.buffer = buffer,
                                    !.reads = codec.reads + 1]
          /\ expect' = {Refilled(h, buffer) : h \in expect}
                       \cup {[n |-> Len(packet), packet |-> packet, views |-> {packet},
                              seq |-> codec.reads + 1]}
  /\ UNCHANGED <<engineVars, script>>

\* ReadFromUDP returns an error: the 1 s deadline passed or the connection
\* is closed; continue
LoopReadError ==
  /\ codec.pc = "read"
  /\ codec' = [codec EXCEPT !.pc = "select"]
  /\ UNCHANGED <<engineVars, expect, script>>

\* The header of content a followed by the rest of content b.
Torn(a, b) == [i \in 1..Len(a) |-> IF i <= HeaderLen THEN a[i] ELSE b[i]]

\* handleRequest(data, clientAddr) of a started handler, from ParseMessage(data) on
HandlerParse ==
  /\ \E h \in expect :
       \E a \in h.views, b \in h.views :
         /\ handleRequest(Torn(a, b))
         /\ expect' = expect \ {h}
         /\ codec' = [codec EXCEPT !.last = [packet |-> h.packet, parsed |-> Torn(a, b)]]
  /\ UNCHANGED script

NextLoop ==
  \/ StopSignal
  \/ StopClose
  \/ LoopSelect
  \/ LoopReadPacket
  \/ LoopReadError
  \/ HandlerParse
  \/ StepDataLock
  \/ StepDataStore
  \/ StepDataCheck

\* The loop's goroutine runs, and a read returns within its deadline.
SpecLoop ==
  /\ InitLoop
  /\ [][NextLoop]_vars
  /\ WF_vars(LoopSelect)
  /\ WF_vars(LoopReadPacket \/ LoopReadError)

\* C34: after Stop the accept loop eventually returns, and once it has seen
\* the shutdown signal it starts no further handler.
C34_LoopReturns ==
  /\ (codec.stop # "running") ~> (codec.pc = "returned")
  /\ [][codec.pc = "returned" =>
          /\ codec'.pc = "returned"
          /\ codec'.reads = codec.reads
          /\ expect' \subseteq expect]_vars

\* The loop has returned while a handler it started has yet to parse: the
\* loop did not wait for it.
C34_Witness ==
  /\ codec.pc = "returned"
  /\ codec.stop = "closed"
  /\ expect # {}

\* C35: every handler parses the bytes of the packet it was started for.
C35_ParsesOwnPacket == codec.last.parsed = codec.last.packet

(***************************************************************************)
(* The two locks.  GetFileTransfers is called by the dashboard while the   *)
(* handlers run: it holds assemblyMu.RLock over its whole loop and takes   *)
(* each assembly's lock inside it.  A writer of assemblyMu (a start        *)
(* handler, a data handler, a cleanup closure) waits while the read side   *)
(* is held.                                                                *)
(***************************************************************************)
Orders(S) == {s \in [1..Cardinality(S) -> S] : {s[i] : i \in DOMAIN s} = S}

CallGetFileTransfers ==
  /\ \A t \in Running : t.kind # "transfers"
  /\ tasks' = Spawn(tasks, NewTask("transfers", "t_rlock", <<>>, 0, Rejected, <<>>, 0))
  /\ UNCHANGED <<domain, objs, fileAssemblies, assemblyMu, files, now, sent, events,
                 scriptChunks, stats, crashed, envVars>>

\* s.assemblyMu.RLock(); the range over the map visits the entries in any order.
TransfersRLock(t) ==
  /\ t.kind = "transfers"
  /\ t.pc = "t_rlock"
  /\ ~assemblyMu
  /\ \E order \in Orders(DOMAIN fileAssemblies) :
       tasks' = Replace(t, [t EXCEPT !.name = order,
                                     !.pc = IF order = <<>> THEN "t_runlock" ELSE "t_scan"])
  /\ UNCHANGED <<domain, objs, fileAssemblies, assemblyMu, files, now, sent, events,
                 scriptChunks, stats, crashed>>

\* One iteration: assembly.mu.Lock(), count the parts, assembly.mu.Unlock().
TransfersScan(t) ==
  /\ t.kind = "transfers"
  /\ t.pc = "t_scan"
  /\ ~objs[fileAssemblies[Head(t.name)]].mu
  /\ tasks' = Replace(t, [t EXCEPT !.name = Tail(@),
                                   !.pc = IF Tail(t.name) = <<>> THEN "t_runlock"
                                          ELSE "t_scan"])
  /\ UNCHANGED <<domain, objs, fileAssemblies, assemblyMu, files, now, sent, events,
                 scriptChunks, stats, crashed>>

\* The deferred s.assemblyMu.RUnlock().
TransfersRUnlock(t) ==
  /\ t.kind = "transfers"
  /\ t.pc = "t_runlock"
  /\ tasks' = Remove(t)
  /\ UNCHANGED <<domain, objs, fileAssemblies, assemblyMu, files, now, sent, events,
                 scriptChunks, stats, crashed>>

StepTransfersRLock == (\E t \in Running : TransfersRLock(t)) /\ UNCHANGED envVars
StepTransfersScan == (\E t \in Running : TransfersScan(t)) /\ UNCHANGED envVars
StepTransfersRUnlock == (\E t \in Running : TransfersRUnlock(t)) /\ UNCHANGED envVars

\* The steps of the goroutines in flight; the writers of assemblyMu wait for
\* the readers.
LockSteps ==
  \/ StepMissingLookup
  \/ StepMissingTotal
  \/ StepMissingScan
  \/ (~ReadLocked /\ StepStartLock)
  \/ StepStartWrite
  \/ (~ReadLocked /\ StepDataLock)
  \/ StepDataStore
  \/ StepDataCheck
  \/ StepDataVerify
  \/ StepAssembleLookup
  \/ StepAssembleLock
  \/ StepAssembleSave
  \/ StepAssembleWriteFail
  \/ (~ReadLocked /\ StepCleanup)
  \/ StepTransfersRLock
  \/ StepTransfersScan
  \/ StepTransfersRUnlock

\* One transfer of one part, its part sent twice, and a missing query.
LockRecords ==
  {StartName(Hash1, 1, ExampleCom), DataName(Hash1, 1, <<"4", "1">>, ExampleCom),
   DataName(Hash1, 1, <<"4", "2", "4", "3">>, ExampleCom),
   MissingName(Hash1, 0, ExampleCom)}

InitLocks ==
  /\ domain = ExampleCom
  /\ InitServer
  /\ expect = [all |-> LockRecords, pending |-> LockRecords, first |-> "none"]
  /\ script = [pc |-> "off"]
  /\ codec = [stage |-> "off"]

NextLocks == ArriveOrder \/ CallGetFileTransfers \/ LockSteps

SpecLocks == InitLocks /\ [][NextLocks]_vars

\* The tasks that hold an assembly's lock between two steps, and the ones that
\* hold assemblyMu between two steps.
HoldsAssembly(t) == t.kind = "assemble" /\ t.pc = "a_save"
HoldsMap(t) ==
  \/ t.kind = "start" /\ t.pc = "s_write"
  \/ t.kind = "transfers" /\ t.pc \in {"t_scan", "t_runlock"}

\* C36: whenever goroutines are in flight one of them can take a step, and a
\* goroutine that holds an assembly's lock holds it alone, holds no side of the
\* map lock and can finish its save (or give it up) without waiting for any
\* lock.
C36_NoDeadlock ==
  /\ Running # {} => ENABLED LockSteps
  /\ \A t \in Running :
       HoldsAssembly(t) => /\ ~HoldsMap(t)
                           /\ objs[t.asm].mu
                           /\ CopiesIn(t, tasks) = 1
                           /\ IF FileData(objs[t.asm]).ok
                              THEN ENABLED (AssembleSave(t) /\ UNCHANGED envVars)
                              ELSE ENABLED (AssembleAbort(t) /\ UNCHANGED envVars)

\* A GetFileTransfers call waits for the lock of an assembly that is being
\* saved while a start handler waits for the map lock.
C36_Witness ==
  \E t \in Running, u \in Running, v \in Running :
    /\ HoldsAssembly(t)
    /\ u.kind = "transfers" /\ u.pc = "t_scan" /\ fileAssemblies[Head(u.name)] = t.asm
    /\ v.pc \in {"s_lock", "d_lock"}

(***************************************************************************)
(* Two transfers.  The records of two hash8 values arrive in any order and *)
(* their handlers interleave.                                              *)
(***************************************************************************)
Hash2 == <<"c", "a", "f", "e", "b", "a", "b", "e">>

TwoRecords ==
  {StartName(Hash1, 1, ExampleCom), DataName(Hash1, 1, <<"4", "1">>, ExampleCom),
   StartName(Hash2, 2, ExampleCom), DataName(Hash2, 1, <<"4", "2">>, ExampleCom),
   DataName(Hash2, 2, <<"4", "3">>, ExampleCom)}

InitTwo ==
  /\ domain = ExampleCom
  /\ InitServer
  /\ expect = [all |-> TwoRecords, pending |-> TwoRecords, first |-> "none"]
  /\ script = [pc |-> "off"]
  /\ codec = [stage |-> "off"]

SpecTwo == InitTwo /\ [][NextOrder]_vars

\* The fields of an assembly but its lock.
Unlocked(a) == [a EXCEPT !.mu = FALSE]

\* C37: a step of the handler of a start or data record leaves every map entry
\* of another hash8 in place, on the same assembly, and leaves that assembly's
\* Filename, TotalParts, ChunkSize, TotalBytes, Parts and CompletedAt as they
\* were.
C37_OtherUntouched ==
  [][\A t \in Running :
       (t.kind \in {"start", "data"} /\ Steps(t)) =>
         \A h \in DOMAIN fileAssemblies \ {t.hash8} :
           /\ h \in DOMAIN fileAssemblies'
           /\ fileAssemblies'[h] = fileAssemblies[h]
           /\ Unlocked(objs'[fileAssemblies[h]]) = Unlocked(objs[fileAssemblies[h]])]_vars

\* The start handler of one transfer is about to update its assembly, which
\* holds a part, while the data handler of the other transfer, whose start
\* record was handled, is about to store.
C37_Witness ==
  \E t \in Running, u \in Running :
    /\ t.kind = "start" /\ t.pc = "s_write" /\ t.hash8 = Hash1
    /\ objs[t.asm].Parts # <<>>
    /\ u.kind = "data" /\ u.pc = "d_store" /\ u.hash8 = Hash2
    /\ objs[u.asm].TotalParts = 2
    /\ u.asm # t.asm

\* C38: a step of the handler of a TXT query whose name holds the label
\* "missing" followed by a label of 8 characters creates no assembly, changes
\* no map entry and leaves the Filename, TotalParts, ChunkSize, TotalBytes,
\* Parts and CompletedAt of every assembly as they were.
C38_MissingReadOnly ==
  [][\A t \in Running :
       (MissingHash(t.name, t.qtype, domain).match /\ Steps(t)) =>
         /\ fileAssemblies' = fileAssemblies
         /\ Len(objs') = Len(objs)
         /\ \A a \in DOMAIN objs : Unlocked(objs'[a]) = Unlocked(objs[a])]_vars

\* The assemblies the map holds.
Mapped == {fileAssemblies[h] : h \in DOMAIN fileAssemblies}

\* C39: a step that takes an entry out of the map, or puts another assembly
\* under its hash8, is the step of the cleanup task of the assembly the entry
\* held, and that assembly's CompletedAt is set; so an assembly whose
\* CompletedAt is not set stays in the map.
C39_RemovedByCleanup ==
  [][/\ \A h \in DOMAIN fileAssemblies :
          (h \notin DOMAIN fileAssemblies' \/ fileAssemblies'[h] # fileAssemblies[h]) =>
            \E t \in Running :
              /\ t.kind = "cleanup" /\ Steps(t)
              /\ t.hash8 = h /\ t.asm = fileAssemblies[h]
              /\ objs[t.asm].CompletedAt # 0
     /\ \A a \in DOMAIN objs' : objs'[a].CompletedAt = 0 => a \in Mapped']_vars

\* The saved assembly was removed by its cleanup; the map holds a placeholder
\* made by a later data record, whose start record will not arrive, while a
\* second cleanup of the saved assembly is still to run.
C39_Witness ==
  /\ \E a \in DOMAIN objs : objs[a].CompletedAt # 0 /\ a \notin Mapped
  /\ \E b \in Mapped : objs[b].CompletedAt = 0 /\ objs[b].TotalParts = -1
  /\ \E t \in Running : t.kind = "cleanup" /\ t.asm \notin Mapped
  /\ \A name \in expect.pending : DynamicRecord(name, domain).kind # "start"
====
